---- MODULE Spec2Model ----
(***************************************************************************)
(* Delegated-stake accounting engine (programs/stake_api/src/stake_state.rs) *)
(* as a state machine: four accounts, the clock and stake-history sysvars,   *)
(* one vote account, and the four StakeAccount operations.                   *)
(*                                                                           *)
(* Numbers.  Rates are f64 in the source.  The model keeps them as exact     *)
(* fractions with a fixed denominator: warmup/cooldown rates are quarters    *)
(* (RateDen), reward amounts are counted in 1/RewardDen lamports.  For these *)
(* dyadic rates and the small amounts of the model the IEEE-754 result of    *)
(* the source's expressions, truncated by `as u64`, equals the exact         *)
(* quotient rounded down.                                                    *)
(***************************************************************************)
EXTENDS Integers, Sequences, FiniteSets, TLC

\* ------------------------------------------------------------------ bounds
MaxEpoch == 2
MaxLamports == 2
PoolLamports == MaxLamports
MaxCredits == 2

\* ----------------------------------------------------- program constants
\* std::u64::MAX, the "never" epoch.  Only compared, never added to.
U64_MAX == 2147483647
\* std::u8::MAX, the commission that gives the voter everything.
U8_MAX == 255

\* denominators of the fixed-point stand-ins for f64
RateDen == 4
PointDen == 2
RewardDen == PointDen * U8_MAX

Epochs == 0..MaxEpoch
StakeAccts == {"stake", "pool"}
Accts == {"stake", "pool", "dest", "vote"}
Pubkeys == {"V", "W"}
None == [none |-> TRUE]

Max(a, b) == IF a >= b THEN a ELSE b
Min(a, b) == IF a <= b THEN a ELSE b
\* u64::saturating_sub
saturating_sub(a, b) == IF a >= b THEN a - b ELSE 0

\* ------------------------------------------------------------------ Config
\* warmup_rate and cooldown_rate in quarters (1 is 0.25).
Config_default == [warmup_rate |-> 1, cooldown_rate |-> 1]
Configs == {Config_default, [warmup_rate |-> 2, cooldown_rate |-> 4]}

\* ------------------------------------------------------------ StakeHistory
\* An epoch -> entry mapping: a function on the set of epochs it holds.
StakeHistory_default == << >>
StakeHistory_get(history, epoch) ==
    IF epoch \in DOMAIN history THEN history[epoch] ELSE None
StakeHistory_add(history, epoch, entry) ==
    [e \in (DOMAIN history) \cup {epoch} |->
        IF e = epoch THEN entry ELSE history[e]]

\* --------------------------------------------------------------- VoteState
VoteState_default(commission) ==
    [credits |-> 0, last_epoch_credits |-> 0, epoch |-> 0,
     epoch_credits |-> << >>, commission |-> commission]

VoteState_credits(vote_state) == vote_state.credits

\* a sequence of <<epoch, credits, prev_credits>>
VoteState_epoch_credits(vote_state) == vote_state.epoch_credits

increment_credits(vote_state, epoch) ==
    LET rolled ==
          IF epoch # vote_state.epoch
          THEN [vote_state EXCEPT
                  !.epoch_credits = Append(@, <<vote_state.epoch,
                                                vote_state.credits,
                                                vote_state.last_epoch_credits>>),
                  !.epoch = epoch,
                  !.last_epoch_credits = vote_state.credits]
          ELSE vote_state
    IN [rolled EXCEPT !.credits = @ + 1]

\* (voter share, staker share, is_split) of `on`, all in 1/RewardDen lamports
commission_split(vote_state, on) ==
    IF vote_state.commission = 0 THEN <<0, on, FALSE>>
    ELSE IF vote_state.commission = U8_MAX THEN <<on, 0, FALSE>>
    ELSE LET mine == (on * vote_state.commission) \div U8_MAX
         IN <<mine, on - mine, TRUE>>

\* ------------------------------------------------------------------- Stake
Stake_default ==
    [voter_pubkey |-> "default", credits_observed |-> 0, stake |-> 0,
     activation_epoch |-> 0, deactivation_epoch |-> U64_MAX,
     config |-> Config_default]

is_bootstrap(self) == self.activation_epoch = U64_MAX

\* ((weight * entry_effective as f64 * rate) as u64).max(1), where
\* weight = remaining as f64 / total as f64
entitlement(remaining, total, entry_effective, rate) ==
    Max((remaining * entry_effective * rate) \div (total * RateDen), 1)

RECURSIVE warmup_loop_uncapped(_, _, _, _, _, _)
\* faulty variant: the entitlement is not capped at the delegated amount
warmup_loop_uncapped(self, epoch, history, entry, effective_stake, next_epoch) ==
    IF entry.activating = 0 THEN effective_stake
    ELSE LET grown == effective_stake
                      + entitlement(self.stake - effective_stake,
                                    entry.activating, entry.effective,
                                    self.config.warmup_rate)
         IN IF grown >= self.stake THEN grown
            ELSE IF next_epoch + 1 >= epoch THEN grown
            ELSE IF StakeHistory_get(history, next_epoch + 1) = None THEN grown
            ELSE warmup_loop_uncapped(self, epoch, history,
                             StakeHistory_get(history, next_epoch + 1),
                             grown, next_epoch + 1)

RECURSIVE warmup_loop(_, _, _, _, _, _)
warmup_loop(self, epoch, history, entry, effective_stake, next_epoch) ==
    IF entry.activating = 0 THEN effective_stake
    ELSE LET grown == effective_stake
                      + entitlement(self.stake - effective_stake,
                                    entry.activating, entry.effective,
                                    self.config.warmup_rate)
         IN IF grown >= self.stake THEN self.stake
            ELSE IF next_epoch + 1 >= epoch THEN grown
            ELSE IF StakeHistory_get(history, next_epoch + 1) = None THEN grown
            ELSE warmup_loop(self, epoch, history,
                             StakeHistory_get(history, next_epoch + 1),
                             grown, next_epoch + 1)

\* faulty variant: a bootstrap stake is not recognised
stake_and_activating_no_bootstrap(self, epoch, history) ==
    IF epoch = self.activation_epoch THEN <<0, self.stake>>
    ELSE IF epoch < self.activation_epoch THEN <<0, 0>>
    ELSE IF StakeHistory_get(history, self.activation_epoch) # None
    THEN LET effective_stake ==
                 warmup_loop(self, epoch, history,
                             StakeHistory_get(history, self.activation_epoch),
                             0, self.activation_epoch)
         IN <<effective_stake, self.stake - effective_stake>>
    ELSE <<self.stake, 0>>

\* faulty variant: nothing is activating until the epoch after activation
stake_and_activating_late_start(self, epoch, history) ==
    IF is_bootstrap(self) THEN <<self.stake, 0>>
    ELSE IF epoch <= self.activation_epoch THEN <<0, 0>>
    ELSE IF StakeHistory_get(history, self.activation_epoch) # None
    THEN LET effective_stake ==
                 warmup_loop(self, epoch, history,
                             StakeHistory_get(history, self.activation_epoch),
                             0, self.activation_epoch)
         IN <<effective_stake, self.stake - effective_stake>>
    ELSE <<self.stake, 0>>

\* <<effective, activating>>
stake_and_activating(self, epoch, history) ==
    IF is_bootstrap(self) THEN <<self.stake, 0>>
    ELSE IF epoch = self.activation_epoch THEN <<0, self.stake>>
    ELSE IF epoch < self.activation_epoch THEN <<0, 0>>
    ELSE IF StakeHistory_get(history, self.activation_epoch) # None
    THEN LET effective_stake ==
                 warmup_loop(self, epoch, history,
                             StakeHistory_get(history, self.activation_epoch),
                             0, self.activation_epoch)
         IN <<effective_stake, self.stake - effective_stake>>
    ELSE <<self.stake, 0>>

RECURSIVE cooldown_loop_reads_current(_, _, _, _, _, _)
\* faulty variant: the loop stops one epoch late and reads the entry of the
\* epoch that is asked about
cooldown_loop_reads_current(self, epoch, history, entry, effective_stake, next_epoch) ==
    IF entry.deactivating = 0 THEN effective_stake
    ELSE LET shrunk == saturating_sub(effective_stake,
                           entitlement(effective_stake, entry.deactivating,
                                       entry.effective,
                                       self.config.cooldown_rate))
         IN IF shrunk = 0 THEN 0
            ELSE IF next_epoch + 1 > epoch THEN shrunk
            ELSE IF StakeHistory_get(history, next_epoch + 1) = None THEN shrunk
            ELSE cooldown_loop_reads_current(self, epoch, history,
                               StakeHistory_get(history, next_epoch + 1),
                               shrunk, next_epoch + 1)

RECURSIVE cooldown_loop(_, _, _, _, _, _)
cooldown_loop(self, epoch, history, entry, effective_stake, next_epoch) ==
    IF entry.deactivating = 0 THEN effective_stake
    ELSE LET shrunk == saturating_sub(effective_stake,
                           entitlement(effective_stake, entry.deactivating,
                                       entry.effective,
                                       self.config.cooldown_rate))
         IN IF shrunk = 0 THEN 0
            ELSE IF next_epoch + 1 >= epoch THEN shrunk
            ELSE IF StakeHistory_get(history, next_epoch + 1) = None THEN shrunk
            ELSE cooldown_loop(self, epoch, history,
                               StakeHistory_get(history, next_epoch + 1),
                               shrunk, next_epoch + 1)

\* faulty variant: the whole delegation is deactivating at deactivation_epoch
stake_activating_and_deactivating_whole(self, epoch, history) ==
    LET sa == stake_and_activating(self, epoch, history)
        stake == sa[1]
        activating == sa[2]
    IN IF epoch < self.deactivation_epoch THEN <<stake, activating, 0>>
       ELSE IF epoch = self.deactivation_epoch
       THEN <<stake, 0, self.stake>>
       ELSE IF StakeHistory_get(history, self.deactivation_epoch) # None
       THEN LET effective_stake ==
                    cooldown_loop(self, epoch, history,
                                  StakeHistory_get(history,
                                                   self.deactivation_epoch),
                                  stake, self.deactivation_epoch)
            IN <<effective_stake, 0, effective_stake>>
       ELSE <<0, 0, 0>>

\* faulty variant: a stake that dropped out of history never cools down
stake_activating_and_deactivating_never_cools(self, epoch, history) ==
    LET sa == stake_and_activating(self, epoch, history)
        stake == sa[1]
        activating == sa[2]
    IN IF epoch < self.deactivation_epoch THEN <<stake, activating, 0>>
       ELSE IF epoch = self.deactivation_epoch
       THEN <<stake, 0, Min(stake, self.stake)>>
       ELSE IF StakeHistory_get(history, self.deactivation_epoch) # None
       THEN LET effective_stake ==
                    cooldown_loop(self, epoch, history,
                                  StakeHistory_get(history,
                                                   self.deactivation_epoch),
                                  stake, self.deactivation_epoch)
            IN <<effective_stake, 0, effective_stake>>
       ELSE <<stake, 0, stake>>

\* <<effective, activating, deactivating>>
stake_activating_and_deactivating(self, epoch, history) ==
    LET sa == stake_and_activating(self, epoch, history)
        stake == sa[1]
        activating == sa[2]
    IN IF epoch < self.deactivation_epoch THEN <<stake, activating, 0>>
       ELSE IF epoch = self.deactivation_epoch
       THEN <<stake, 0, Min(stake, self.stake)>>
       ELSE IF StakeHistory_get(history, self.deactivation_epoch) # None
       THEN LET effective_stake ==
                    cooldown_loop(self, epoch, history,
                                  StakeHistory_get(history,
                                                   self.deactivation_epoch),
                                  stake, self.deactivation_epoch)
            IN <<effective_stake, 0, effective_stake>>
       ELSE <<0, 0, 0>>

\* Stake::stake(epoch, history): the effective stake
Stake_stake(self, epoch, history) ==
    stake_activating_and_deactivating(self, epoch, history)[1]


RECURSIVE rewards_loop_keeps_watermark(_, _, _, _, _, _, _)
\* faulty variant: the loop never moves credits_observed forward
rewards_loop_keeps_watermark(self, point_value, epoch_credits, stake_history, i, credits_observed, total_rewards) ==
    IF i > Len(epoch_credits) THEN <<credits_observed, total_rewards>>
    ELSE LET epoch == epoch_credits[i][1]
             credits == epoch_credits[i][2]
             prev_credits == epoch_credits[i][3]
             earned ==
                 IF self.credits_observed < prev_credits
                 THEN credits - prev_credits
                 ELSE IF self.credits_observed < credits
                 THEN credits - credits_observed
                 ELSE 0
         IN rewards_loop_keeps_watermark(self, point_value, epoch_credits,
                         stake_history, i + 1, credits_observed,
                         total_rewards
                         + (Stake_stake(self, epoch, stake_history) * earned)
                           * point_value * U8_MAX)

RECURSIVE rewards_loop_whole_epochs(_, _, _, _, _, _, _)
\* faulty variant: the epoch that straddles credits_observed earns nothing
rewards_loop_whole_epochs(self, point_value, epoch_credits, stake_history, i, credits_observed, total_rewards) ==
    IF i > Len(epoch_credits) THEN <<credits_observed, total_rewards>>
    ELSE LET epoch == epoch_credits[i][1]
             credits == epoch_credits[i][2]
             prev_credits == epoch_credits[i][3]
             earned ==
                 IF self.credits_observed < prev_credits
                 THEN credits - prev_credits
                 ELSE 0
         IN rewards_loop_whole_epochs(self, point_value, epoch_credits,
                         stake_history, i + 1, Max(credits_observed, credits),
                         total_rewards
                         + (Stake_stake(self, epoch, stake_history) * earned)
                           * point_value * U8_MAX)

RECURSIVE rewards_loop(_, _, _, _, _, _, _)
\* the for loop of calculate_rewards from its i-th epoch_credits item on:
\* <<credits_observed, total_rewards>>
rewards_loop(self, point_value, epoch_credits, stake_history, i, credits_observed, total_rewards) ==
    IF i > Len(epoch_credits) THEN <<credits_observed, total_rewards>>
    ELSE LET epoch == epoch_credits[i][1]
             credits == epoch_credits[i][2]
             prev_credits == epoch_credits[i][3]
             earned ==
                 IF self.credits_observed < prev_credits
                 THEN credits - prev_credits
                 ELSE IF self.credits_observed < credits
                 THEN credits - credits_observed
                 ELSE 0
         IN rewards_loop(self, point_value, epoch_credits, stake_history,
                         i + 1, Max(credits_observed, credits),
                         total_rewards
                         + (Stake_stake(self, epoch, stake_history) * earned)
                           * point_value * U8_MAX)

\* faulty variant: a split that leaves a share below one lamport is paid
calculate_rewards_pays_fractions(self, point_value, vote_state, stake_history) ==
    IF self.credits_observed >= VoteState_credits(vote_state) THEN None
    ELSE LET acc == rewards_loop(self, point_value,
                                 VoteState_epoch_credits(vote_state),
                                 stake_history, 1, self.credits_observed, 0)
             split == commission_split(vote_state, acc[2])
         IN IF acc[2] < RewardDen THEN None
            ELSE <<split[1] \div RewardDen, split[2] \div RewardDen, acc[1]>>

\* None, or <<voter_rewards, staker_rewards, credits_observed>>.
\* point_value counts 1/PointDen lamports per point.
calculate_rewards(self, point_value, vote_state, stake_history) ==
    IF self.credits_observed >= VoteState_credits(vote_state) THEN None
    ELSE LET acc == rewards_loop(self, point_value,
                                 VoteState_epoch_credits(vote_state),
                                 stake_history, 1, self.credits_observed, 0)
             credits_observed == acc[1]
             total_rewards == acc[2]
         IN IF total_rewards < RewardDen THEN None
            ELSE LET split == commission_split(vote_state, total_rewards)
                     voter_rewards == split[1]
                     staker_rewards == split[2]
                     is_split == split[3]
                 IN IF (voter_rewards < RewardDen \/ staker_rewards < RewardDen)
                       /\ is_split
                    THEN None
                    ELSE <<voter_rewards \div RewardDen,
                           staker_rewards \div RewardDen,
                           credits_observed>>

\* faulty variant: the new stake starts from a zero watermark
Stake_new_zero_credits(stake, voter_pubkey, vote_state, activation_epoch, config) ==
    [Stake_default EXCEPT
        !.stake = stake,
        !.activation_epoch = activation_epoch,
        !.voter_pubkey = voter_pubkey,
        !.config = config]

\* faulty variant: the new stake starts warming up in the next epoch
Stake_new_next_epoch(stake, voter_pubkey, vote_state, activation_epoch, config) ==
    [Stake_default EXCEPT
        !.stake = stake,
        !.activation_epoch =
            IF activation_epoch = U64_MAX THEN U64_MAX ELSE activation_epoch + 1,
        !.voter_pubkey = voter_pubkey,
        !.credits_observed = VoteState_credits(vote_state),
        !.config = config]

Stake_new(stake, voter_pubkey, vote_state, activation_epoch, config) ==
    [Stake_default EXCEPT
        !.stake = stake,
        !.activation_epoch = activation_epoch,
        !.voter_pubkey = voter_pubkey,
        !.credits_observed = VoteState_credits(vote_state),
        !.config = config]

new_bootstrap(stake, voter_pubkey, vote_state) ==
    Stake_new(stake, voter_pubkey, vote_state, U64_MAX, Config_default)

\* faulty variant: deactivation gives the delegated amount up
Stake_deactivate_clears_stake(self, epoch) ==
    [self EXCEPT !.deactivation_epoch = epoch, !.stake = 0]

\* faulty variant: deactivation also forgets the credits already redeemed
Stake_deactivate_resets_credits(self, epoch) ==
    [self EXCEPT !.deactivation_epoch = epoch, !.credits_observed = 0]

Stake_deactivate(self, epoch) == [self EXCEPT !.deactivation_epoch = epoch]

\* -------------------------------------------------------------- StakeState
Uninitialized == [tag |-> "Uninitialized"]
RewardsPool == [tag |-> "RewardsPool"]
StakeOf(stake) == [tag |-> "Stake", stake |-> stake]

\* the stake account create_account builds: a bootstrap stake of all its lamports
create_account(voter_pubkey, vote_state, lamports) ==
    StakeOf(new_bootstrap(lamports, voter_pubkey, vote_state))

\* ------------------------------------------------------------------- state
VARIABLES
    lamports,       \* account -> lamport balance
    state,          \* stake-program account -> its StakeState
    vote_state,     \* the VoteState held by the vote account
    clock,          \* the clock sysvar's epoch
    stake_history,  \* the stake_history sysvar
    result,         \* the operation that has just succeeded, until it returns
    rewound         \* whether the clock was ever set back

vars == <<lamports, state, vote_state, clock, stake_history, result, rewound>>

NoResult == [op |-> "none", self |-> "none", signed |-> FALSE]

\* what an operation returns and the account fields it leaves behind
Returned(err, new_lamports, new_state) ==
    [err |-> err, lamports |-> new_lamports, state |-> new_state]

\* ----------------------------------------------- impl StakeAccount (the ops)
\* faulty variant: the state is looked at before the funds
delegate_stake_state_first(self, signed, vote_key, new_stake, config) ==
    IF ~signed THEN Returned("MissingRequiredSignature", lamports, state)
    ELSE IF state[self] # Uninitialized
    THEN Returned("InvalidAccountData", lamports, state)
    ELSE IF new_stake > lamports[self]
    THEN Returned("InsufficientFunds", lamports, state)
    ELSE LET stake == Stake_new(new_stake, vote_key, vote_state, clock, config)
         IN Returned("Ok", lamports, [state EXCEPT ![self] = StakeOf(stake)])

delegate_stake(self, signed, vote_key, new_stake, config) ==
    IF ~signed THEN Returned("MissingRequiredSignature", lamports, state)
    ELSE IF new_stake > lamports[self]
    THEN Returned("InsufficientFunds", lamports, state)
    ELSE IF state[self] = Uninitialized
    THEN LET stake == Stake_new(new_stake, vote_key, vote_state, clock, config)
         IN Returned("Ok", lamports, [state EXCEPT ![self] = StakeOf(stake)])
    ELSE Returned("InvalidAccountData", lamports, state)

\* faulty variant: an account that is not Stake is reset instead of refused
deactivate_stake_any_state(self, signed) ==
    IF ~signed THEN Returned("MissingRequiredSignature", lamports, state)
    ELSE IF state[self].tag = "Stake"
    THEN LET stake == Stake_deactivate(state[self].stake, clock)
         IN Returned("Ok", lamports, [state EXCEPT ![self] = StakeOf(stake)])
    ELSE Returned("Ok", lamports, [state EXCEPT ![self] = Uninitialized])

\* faulty variant: the signer check is missing
deactivate_stake_no_signer(self, signed) ==
    IF state[self].tag = "Stake"
    THEN LET stake == Stake_deactivate(state[self].stake, clock)
         IN Returned("Ok", lamports, [state EXCEPT ![self] = StakeOf(stake)])
    ELSE Returned("InvalidAccountData", lamports, state)

deactivate_stake(self, signed) ==
    IF ~signed THEN Returned("MissingRequiredSignature", lamports, state)
    ELSE IF state[self].tag = "Stake"
    THEN LET stake == Stake_deactivate(state[self].stake, clock)
         IN Returned("Ok", lamports, [state EXCEPT ![self] = StakeOf(stake)])
    ELSE Returned("InvalidAccountData", lamports, state)

\* faulty variant: the payout is made and credits_observed is not stored
redeem_on_forgets_watermark(self, vote_key, rewards_account, point_value) ==
    IF state[self].tag = "Stake" /\ state[rewards_account] = RewardsPool
    THEN LET stake == state[self].stake
             rewards == calculate_rewards(stake, point_value,
                                          vote_state, stake_history)
         IN IF stake.voter_pubkey # vote_key
            THEN Returned("InvalidArgument", lamports, state)
            ELSE IF rewards = None
            THEN Returned("CustomError(1)", lamports, state)
            ELSE IF lamports[rewards_account] < rewards[1] + rewards[2]
            THEN Returned("UnbalancedInstruction", lamports, state)
            ELSE Returned("Ok",
                     [lamports EXCEPT
                         ![rewards_account] = @ - (rewards[1] + rewards[2]),
                         ![self] = @ + rewards[1],
                         !["vote"] = @ + rewards[2]],
                     state)
    ELSE Returned("InvalidAccountData", lamports, state)

\* faulty variant: the voter's key is compared after the rewards are
\* calculated and the pool is looked at
redeem_on_key_last(self, vote_key, rewards_account, point_value) ==
    IF state[self].tag = "Stake" /\ state[rewards_account] = RewardsPool
    THEN LET stake == state[self].stake
             rewards == calculate_rewards(stake, point_value,
                                          vote_state, stake_history)
         IN IF rewards = None
            THEN Returned("CustomError(1)", lamports, state)
            ELSE IF lamports[rewards_account] < rewards[1] + rewards[2]
            THEN Returned("UnbalancedInstruction", lamports, state)
            ELSE IF stake.voter_pubkey # vote_key
            THEN Returned("InvalidArgument", lamports, state)
            ELSE Returned("Ok",
                     [lamports EXCEPT
                         ![rewards_account] = @ - (rewards[1] + rewards[2]),
                         ![self] = @ + rewards[1],
                         !["vote"] = @ + rewards[2]],
                     [state EXCEPT ![self] = StakeOf(
                         [stake EXCEPT !.credits_observed = rewards[3]])])
    ELSE Returned("InvalidAccountData", lamports, state)

\* faulty variant: the pool's balance is not compared with the payout
redeem_on_overdraws(self, vote_key, rewards_account, point_value) ==
    IF state[self].tag = "Stake" /\ state[rewards_account] = RewardsPool
    THEN LET stake == state[self].stake
             rewards == calculate_rewards(stake, point_value,
                                          vote_state, stake_history)
         IN IF stake.voter_pubkey # vote_key
            THEN Returned("InvalidArgument", lamports, state)
            ELSE IF rewards = None
            THEN Returned("CustomError(1)", lamports, state)
            ELSE Returned("Ok",
                     [lamports EXCEPT
                         ![rewards_account] = @ - (rewards[1] + rewards[2]),
                         ![self] = @ + rewards[1],
                         !["vote"] = @ + rewards[2]],
                     [state EXCEPT ![self] = StakeOf(
                         [stake EXCEPT !.credits_observed = rewards[3]])])
    ELSE Returned("InvalidAccountData", lamports, state)

\* the body of redeem_vote_credits
redeem_on(self, vote_key, rewards_account, point_value) ==
    IF state[self].tag = "Stake" /\ state[rewards_account] = RewardsPool
    THEN LET stake == state[self].stake
         IN IF stake.voter_pubkey # vote_key
            THEN Returned("InvalidArgument", lamports, state)
            ELSE LET rewards == calculate_rewards(stake, point_value,
                                                  vote_state, stake_history)
                 IN IF rewards # None
                    THEN LET stakers_reward == rewards[1]
                             voters_reward == rewards[2]
                             credits_observed == rewards[3]
                         IN IF lamports[rewards_account]
                                 < stakers_reward + voters_reward
                            THEN Returned("UnbalancedInstruction", lamports, state)
                            ELSE LET debited ==
                                       [lamports EXCEPT ![rewards_account] =
                                           @ - (stakers_reward + voters_reward)]
                                     credited ==
                                       [debited EXCEPT
                                           ![self] = @ + stakers_reward,
                                           !["vote"] = @ + voters_reward]
                                 IN Returned("Ok", credited,
                                        [state EXCEPT ![self] = StakeOf(
                                            [stake EXCEPT !.credits_observed =
                                                credits_observed])])
                    ELSE Returned("CustomError(1)", lamports, state)
    ELSE Returned("InvalidAccountData", lamports, state)

\* faulty variant: redeem asks for the stake account's signature like the other operations
redeem_vote_credits_checks_signer(self, signed, vote_key, rewards_account, point_value) ==
    IF ~signed THEN Returned("MissingRequiredSignature", lamports, state)
    ELSE redeem_on(self, vote_key, rewards_account, point_value)

\* redeem_vote_credits never looks at self.signer_key()
redeem_vote_credits(self, signed, vote_key, rewards_account, point_value) ==
    redeem_on(self, vote_key, rewards_account, point_value)

\* faulty variant: only the effective stake is held back, deactivated or not
withdraw_staked_only_effective(stake) ==
    Stake_stake(stake, clock, stake_history)

\* the amount withdraw holds back on a Stake account
withdraw_staked(stake) ==
    IF clock >= stake.deactivation_epoch
    THEN Stake_stake(stake, clock, stake_history)
    ELSE stake.stake

\* faulty variant: the lamports move before the funds are checked
withdraw_moves_first(self, signed, amount, to) ==
    LET moved == [lamports EXCEPT ![self] = @ - amount, ![to] = @ + amount]
    IN IF ~signed THEN Returned("MissingRequiredSignature", lamports, state)
       ELSE IF state[self].tag = "Stake"
       THEN IF amount > saturating_sub(lamports[self],
                                       withdraw_staked(state[self].stake))
            THEN Returned("InsufficientFunds", moved, state)
            ELSE Returned("Ok", moved, state)
       ELSE IF state[self] = Uninitialized
       THEN IF amount > lamports[self]
            THEN Returned("InsufficientFunds", moved, state)
            ELSE Returned("Ok", moved, state)
       ELSE Returned("InvalidAccountData", lamports, state)

\* faulty variant: self and to are swapped when the lamports move
withdraw_reversed(self, signed, amount, to) ==
    LET moved == [lamports EXCEPT ![self] = @ + amount, ![to] = @ - amount]
    IN IF ~signed THEN Returned("MissingRequiredSignature", lamports, state)
       ELSE IF state[self].tag = "Stake"
       THEN IF amount > saturating_sub(lamports[self],
                                       withdraw_staked(state[self].stake))
            THEN Returned("InsufficientFunds", lamports, state)
            ELSE Returned("Ok", moved, state)
       ELSE IF state[self] = Uninitialized
       THEN IF amount > lamports[self]
            THEN Returned("InsufficientFunds", lamports, state)
            ELSE Returned("Ok", moved, state)
       ELSE Returned("InvalidAccountData", lamports, state)

\* faulty variant: the destination is never credited
withdraw_burns(self, signed, amount, to) ==
    LET moved == [lamports EXCEPT ![self] = @ - amount]
    IN IF ~signed THEN Returned("MissingRequiredSignature", lamports, state)
       ELSE IF state[self].tag = "Stake"
       THEN IF amount > saturating_sub(lamports[self],
                                       withdraw_staked(state[self].stake))
            THEN Returned("InsufficientFunds", lamports, state)
            ELSE Returned("Ok", moved, state)
       ELSE IF state[self] = Uninitialized
       THEN IF amount > lamports[self]
            THEN Returned("InsufficientFunds", lamports, state)
            ELSE Returned("Ok", moved, state)
       ELSE Returned("InvalidAccountData", lamports, state)

withdraw(self, signed, amount, to) ==
    IF ~signed THEN Returned("MissingRequiredSignature", lamports, state)
    ELSE IF state[self].tag = "Stake"
    THEN IF amount > saturating_sub(lamports[self],
                                    withdraw_staked(state[self].stake))
         THEN Returned("InsufficientFunds", lamports, state)
         ELSE Returned("Ok", [lamports EXCEPT ![self] = @ - amount,
                                              ![to] = @ + amount], state)
    ELSE IF state[self] = Uninitialized
    THEN IF amount > lamports[self]
         THEN Returned("InsufficientFunds", lamports, state)
         ELSE Returned("Ok", [lamports EXCEPT ![self] = @ - amount,
                                              ![to] = @ + amount], state)
    ELSE Returned("InvalidAccountData", lamports, state)


\* --------------------------------------------------------- history builder
RECURSIVE fold_stakes_drops_deactivating(_, _, _)
\* faulty variant: add() keeps the last stake's deactivating instead of the sum
fold_stakes_drops_deactivating(stakes, epoch, history) ==
    IF stakes = << >> THEN <<0, 0, 0>>
    ELSE LET sum == fold_stakes_drops_deactivating(Tail(stakes), epoch, history)
             b == stake_activating_and_deactivating(Head(stakes), epoch, history)
         IN <<sum[1] + b[1], sum[2] + b[2], b[3]>>

RECURSIVE fold_stakes(_, _, _)
\* stakes.fold((0, 0, 0), |sum, stake| add(sum, stake.stake_activating_...))
fold_stakes(stakes, epoch, history) ==
    IF stakes = << >> THEN <<0, 0, 0>>
    ELSE LET sum == fold_stakes(Tail(stakes), epoch, history)
             b == stake_activating_and_deactivating(Head(stakes), epoch, history)
         IN <<sum[1] + b[1], sum[2] + b[2], sum[3] + b[3]>>

new_stake_history_entry(epoch, stakes, history) ==
    LET sum == fold_stakes(stakes, epoch, history)
    IN [effective |-> sum[1], activating |-> sum[2], deactivating |-> sum[3]]

\* ------------------------------------------------------------- environment
\* lamports of the bootstrap stake the rest of the network holds
NetworkStake == 2 * MaxLamports
Commissions == {0, 128, U8_MAX}
\* validator_point_value of the rewards sysvar, in 1/PointDen lamports
PointValues == {1, 2, 4}

\* every stake the runtime knows: the network's bootstrap stake and the
\* Stake accounts of the model
live_stakes ==
    <<[Stake_default EXCEPT !.stake = NetworkStake, !.activation_epoch = U64_MAX]>>
    \o (IF state["stake"].tag = "Stake" THEN <<state["stake"].stake>> ELSE << >>)
    \o (IF state["pool"].tag = "Stake" THEN <<state["pool"].stake>> ELSE << >>)

\* the accounts a withdraw may name as its destination
WithdrawTo == {"dest", "pool"}

\* the amounts a caller asks for: up to one lamport more than the account holds
Amounts(self) == 0..(lamports[self] + 1)

Init ==
    /\ lamports = [a \in Accts |->
                     IF a = "stake" THEN MaxLamports
                     ELSE IF a = "pool" THEN PoolLamports ELSE 0]
    /\ \E commission \in Commissions : vote_state = VoteState_default(commission)
    /\ \E s \in {Uninitialized, create_account("V", vote_state, MaxLamports)} :
          state = [a \in StakeAccts |-> IF a = "pool" THEN RewardsPool ELSE s]
    /\ clock = 0
    /\ stake_history = StakeHistory_default
    /\ result = NoResult
    /\ rewound = FALSE

\* An operation is called and returns r.  The account fields it left behind
\* become the state; a call that fails is dropped and leaves no other trace.
Called(op, self, signed, r) ==
    /\ result = NoResult
    /\ lamports' = r.lamports
    /\ state' = r.state
    /\ result' = IF r.err = "Ok"
                 THEN [op |-> op, self |-> self, signed |-> signed]
                 ELSE result
    /\ UNCHANGED <<vote_state, clock, stake_history, rewound>>

Delegate ==
    \E self \in StakeAccts, signed \in BOOLEAN, config \in Configs :
      \E new_stake \in Amounts(self) :
        Called("delegate", self, signed,
               delegate_stake(self, signed, "V", new_stake, config))

Deactivate ==
    \E self \in StakeAccts, signed \in BOOLEAN :
        Called("deactivate", self, signed, deactivate_stake(self, signed))

Redeem ==
    \E self \in StakeAccts, signed \in BOOLEAN, vote_key \in Pubkeys, point_value \in PointValues :
      \E rewards_account \in StakeAccts \ {self} :
        Called("redeem", self, signed,
               redeem_vote_credits(self, signed, vote_key, rewards_account, point_value))

Withdraw ==
    \E self \in StakeAccts, signed \in BOOLEAN :
      \E amount \in Amounts(self), to \in WithdrawTo \ {self} :
        Called("withdraw", self, signed, withdraw(self, signed, amount, to))

\* the voter earns a credit in the current epoch
VoteCredit ==
    /\ VoteState_credits(vote_state) < MaxCredits
    /\ vote_state' = increment_credits(vote_state, clock)
    /\ result = NoResult
    /\ UNCHANGED <<lamports, state, clock, stake_history, result, rewound>>

\* epoch boundary: the runtime records the ended epoch's totals
AdvanceEpoch ==
    /\ clock < MaxEpoch
    /\ stake_history' = StakeHistory_add(stake_history, clock,
           new_stake_history_entry(clock, live_stakes, stake_history))
    /\ clock' = clock + 1
    /\ result = NoResult
    /\ UNCHANGED <<lamports, state, vote_state, result, rewound>>

\* the call returns to its caller
Return ==
    /\ result # NoResult
    /\ result' = NoResult
    /\ UNCHANGED <<lamports, state, vote_state, clock, stake_history, rewound>>

\* a caller hands the operations a clock of its own choosing
SetClock ==
    /\ \E e \in Epochs \ {clock} :
          /\ clock' = e
          /\ rewound' = (rewound \/ e < clock)
    /\ result = NoResult
    /\ UNCHANGED <<lamports, state, vote_state, stake_history, result>>

Next ==
    \/ Delegate
    \/ Deactivate
    \/ Redeem
    \/ Withdraw
    \/ VoteCredit
    \/ AdvanceEpoch
    \/ Return

Spec == Init /\ [][Next]_vars

\* delegate and deactivate called with whatever clock the caller hands them
NextAnyClock ==
    \/ Delegate
    \/ Deactivate
    \/ Return
    \/ SetClock

SpecAnyClock == Init /\ [][NextAnyClock]_vars

\* the operations that read the clock, the epoch boundary and a caller that
\* hands them a clock of its own choosing
NextWithdrawAnyClock ==
    \/ Delegate
    \/ Deactivate
    \/ Withdraw
    \/ AdvanceEpoch
    \/ Return
    \/ SetClock

SpecWithdrawAnyClock == Init /\ [][NextWithdrawAnyClock]_vars

\* ------------------------------------------- the schedule on its own
\* stake_activating_and_deactivating applied to any stake, at any epoch,
\* under any history, including histories with gaps and histories no
\* builder would have made.
AnyEpochs == Epochs \cup {U64_MAX}
QueryEpochs == 0..(MaxEpoch + 1)
AnyStakes ==
    {[Stake_default EXCEPT !.stake = amount, !.activation_epoch = a,
                           !.deactivation_epoch = d, !.config = config] :
        amount \in 0..MaxLamports, a \in AnyEpochs, d \in AnyEpochs,
        config \in Configs}
\* a slow epoch (every share is below one lamport), a fast one (a quarter of
\* the effective stake covers all that is moving), a still one, one where
\* stake only warms up and one where stake only cools down
HistoryEntries ==
    {[effective |-> 0, activating |-> MaxLamports, deactivating |-> MaxLamports],
     [effective |-> 4 * MaxLamports, activating |-> MaxLamports,
      deactivating |-> MaxLamports],
     [effective |-> 4 * MaxLamports, activating |-> 0, deactivating |-> 0],
     [effective |-> 4 * MaxLamports, activating |-> MaxLamports,
      deactivating |-> 0],
     [effective |-> 0, activating |-> 0, deactivating |-> MaxLamports]}
AnyHistories == UNION {[held -> HistoryEntries] : held \in SUBSET Epochs}

InitTriple ==
    /\ lamports = [a \in Accts |-> 0]
    /\ vote_state = VoteState_default(0)
    /\ \E stake \in AnyStakes :
          state = [a \in StakeAccts |->
                     IF a = "pool" THEN RewardsPool ELSE StakeOf(stake)]
    /\ clock = 0
    /\ stake_history \in AnyHistories
    /\ result = NoResult
    /\ rewound = FALSE

\* the schedule is asked for the stake's triple at some epoch
Evaluate ==
    \E epoch \in QueryEpochs :
      /\ clock' = epoch
      /\ result' = [op |-> "stake_activating_and_deactivating",
                    self |-> "stake", signed |-> FALSE,
                    triple |-> stake_activating_and_deactivating(
                                   state["stake"].stake, epoch, stake_history)]
      /\ UNCHANGED <<lamports, state, vote_state, stake_history, rewound>>

NextTriple == Evaluate

SpecTriple == InitTriple /\ [][NextTriple]_vars

\* ------------------------------- a set of stakes and the history they make
\* Stakes delegated (or bootstrapped) with the default config, each with
\* its activation and deactivation epochs, and a history built from them
\* one epoch after the other, as the runtime does at every epoch boundary.
ScheduledIds == {"first", "second", "third"}
\* amounts below, at and well above the size where a quarter is a lamport
ScheduledAmounts == {1, 2 * MaxLamports, 8 * MaxLamports}
ScheduledStakes ==
    {stake \in {[Stake_default EXCEPT !.stake = amount,
                                      !.activation_epoch = a,
                                      !.deactivation_epoch = d] :
                   amount \in ScheduledAmounts, a \in AnyEpochs, d \in AnyEpochs} :
        is_bootstrap(stake) \/ stake.activation_epoch <= stake.deactivation_epoch}

scheduled_stakes == <<state["first"].stake, state["second"].stake, state["third"].stake>>

InitScheduled ==
    /\ lamports = [a \in Accts |-> 0]
    /\ vote_state = VoteState_default(0)
    /\ state \in [ScheduledIds -> {StakeOf(stake) : stake \in ScheduledStakes}]
    /\ clock = 0
    /\ stake_history = StakeHistory_default
    /\ result = NoResult
    /\ rewound = FALSE

\* the epoch ends: its entry is made from the stakes and the history so far
BuildEpoch ==
    /\ clock <= MaxEpoch
    /\ stake_history' = StakeHistory_add(stake_history, clock,
           new_stake_history_entry(clock, scheduled_stakes, stake_history))
    /\ clock' = clock + 1
    /\ UNCHANGED <<lamports, state, vote_state, result, rewound>>

NextScheduled == BuildEpoch

SpecScheduled == InitScheduled /\ [][NextScheduled]_vars

\* --------------------------------------- calculate_rewards on its own
\* A stake with any credits_observed against a voter that earns credits
\* epoch after epoch, under a fixed history.
RewardCredits == 2 * MaxCredits + 1
\* an entry under which a stake of MaxLamports warms up a lamport per epoch
SteadyEntry ==
    [effective |-> 2 * MaxLamports, activating |-> MaxLamports,
     deactivating |-> MaxLamports]
RewardHistories ==
    {StakeHistory_default, [epoch \in Epochs |-> SteadyEntry]}
RewardStakes ==
    {[Stake_default EXCEPT !.voter_pubkey = "V", !.stake = amount,
                           !.credits_observed = credits_observed,
                           !.activation_epoch = a] :
        amount \in 1..MaxLamports, credits_observed \in 0..RewardCredits,
        a \in {0, U64_MAX}}

InitRewards ==
    /\ lamports = [a \in Accts |-> 0]
    /\ \E commission \in Commissions : vote_state = VoteState_default(commission)
    /\ \E stake \in RewardStakes :
          state = [a \in StakeAccts |->
                     IF a = "pool" THEN RewardsPool ELSE StakeOf(stake)]
    /\ clock = 0
    /\ stake_history \in RewardHistories
    /\ result = NoResult
    /\ rewound = FALSE

\* the voter earns a credit in the current epoch
Vote ==
    /\ VoteState_credits(vote_state) < RewardCredits
    /\ vote_state' = increment_credits(vote_state, clock)
    /\ result = NoResult
    /\ UNCHANGED <<lamports, state, clock, stake_history, result, rewound>>

\* the epoch ends
Tick ==
    /\ clock <= MaxEpoch
    /\ clock' = clock + 1
    /\ result = NoResult
    /\ UNCHANGED <<lamports, state, vote_state, stake_history, result, rewound>>

\* the stake's rewards are calculated
Calculate ==
    \E point_value \in PointValues :
      /\ result = NoResult
      /\ result' = [op |-> "calculate_rewards", self |-> "stake",
                    signed |-> FALSE, point_value |-> point_value,
                    rewards |-> calculate_rewards(state["stake"].stake,
                                    point_value, vote_state, stake_history)]
      /\ UNCHANGED <<lamports, state, vote_state, clock, stake_history, rewound>>

NextRewards ==
    \/ Vote
    \/ Tick
    \/ Calculate

SpecRewards == InitRewards /\ [][NextRewards]_vars

\* ------------------------------------------- redeems as the credits grow
\* One stake account redeeming again and again while the voter keeps
\* earning credits, out of a pool that can pay every point.
RedeemPool == 2 * RewardCredits * MaxLamports

InitRedeem ==
    /\ lamports = [a \in Accts |->
                     IF a = "stake" THEN MaxLamports
                     ELSE IF a = "pool" THEN RedeemPool ELSE 0]
    /\ \E commission \in Commissions : vote_state = VoteState_default(commission)
    /\ \E s \in {Uninitialized, create_account("V", vote_state, MaxLamports)} :
          state = [a \in StakeAccts |-> IF a = "pool" THEN RewardsPool ELSE s]
    /\ clock = 0
    /\ stake_history = StakeHistory_default
    /\ result = NoResult
    /\ rewound = FALSE

NextRedeem ==
    \/ Delegate
    \/ Redeem
    \/ Vote
    \/ AdvanceEpoch
    \/ Return

SpecRedeem == InitRedeem /\ [][NextRedeem]_vars

\* ======================================================================
\* The BPF loader (programs/bpf_loader_api/src/lib.rs)
\* ======================================================================
\* Here `state` holds the instruction's keyed accounts: account 0 is the
\* program account, account 1 a parameter account of the program.
MaxData == 2
Bytes == {0, 1}
\* byte strings of up to n bytes
BytesUpTo(n) == UNION {[1..len -> Bytes] : len \in 0..n}

keyed_accounts == state

Account(account_lamports, data, executable) ==
    [lamports |-> account_lamports, data |-> data, executable |-> executable]

\* what bincode::deserialize(ix_data) gives: a LoaderInstruction, or an
\* error for bytes that encode none
Write(offset, bytes) == [tag |-> "Write", offset |-> offset, bytes |-> bytes]
Finalize == [tag |-> "Finalize"]
InvokeMain(data) == [tag |-> "InvokeMain", data |-> data]
Undecodable == [tag |-> "Err"]
LoaderInstructions ==
    {Write(offset, bytes) : offset \in 0..(MaxData + 1), bytes \in BytesUpTo(MaxData + 1)}
    \cup {Finalize, Undecodable}
    \cup {InvokeMain(data) : data \in BytesUpTo(1)}

\* what the virtual machine does with the program: it cannot be created,
\* it fails to run, the program returns 0, or the program returns non-zero
\* and the parameter account gets the lamports and the data bytes that the
\* buffer holds at its place
VmOutcomes ==
    {[vm |-> "create_failed"], [vm |-> "run_failed"], [vm |-> "status_zero"]}
    \cup {[vm |-> "done", lamports |-> l, buffer |-> b] :
            l \in 0..1, b \in [1..1 -> Bytes]}

\* data[offset..offset + len].copy_from_slice(&bytes)
copy_from_slice(data, offset, bytes) ==
    [i \in 1..Len(data) |->
       IF offset < i /\ i <= offset + Len(bytes) THEN bytes[i - offset] ELSE data[i]]

\* faulty variant: Write and Finalize do not ask for account 0's signature
process_instruction_unsigned(signed, instruction, outcome) ==
    IF instruction.tag = "Write"
    THEN IF Len(keyed_accounts[0].data) < instruction.offset + Len(instruction.bytes)
         THEN Returned("GenericError", lamports, state)
         ELSE Returned("Ok", lamports,
                  [state EXCEPT ![0].data =
                      copy_from_slice(@, instruction.offset, instruction.bytes)])
    ELSE IF instruction.tag = "Finalize"
    THEN Returned("Ok", lamports, [state EXCEPT ![0].executable = TRUE])
    ELSE IF instruction.tag = "InvokeMain"
    THEN IF ~keyed_accounts[0].executable
         THEN Returned("GenericError", lamports, state)
         ELSE IF outcome.vm # "done"
         THEN Returned("GenericError", lamports, state)
         ELSE Returned("Ok", lamports,
                  [state EXCEPT ![1].lamports = outcome.lamports,
                                ![1].data =
                                   [i \in 1..Len(@) |-> outcome.buffer[i]]])
    ELSE Returned("GenericError", lamports, state)

\* faulty variant: InvokeMain does not look at the executable flag
process_instruction_runs_anything(signed, instruction, outcome) ==
    IF instruction.tag = "Write"
    THEN IF ~signed THEN Returned("GenericError", lamports, state)
         ELSE IF Len(keyed_accounts[0].data)
                   < instruction.offset + Len(instruction.bytes)
         THEN Returned("GenericError", lamports, state)
         ELSE Returned("Ok", lamports,
                  [state EXCEPT ![0].data =
                      copy_from_slice(@, instruction.offset, instruction.bytes)])
    ELSE IF instruction.tag = "Finalize"
    THEN IF ~signed THEN Returned("GenericError", lamports, state)
         ELSE Returned("Ok", lamports, [state EXCEPT ![0].executable = TRUE])
    ELSE IF instruction.tag = "InvokeMain"
    THEN IF outcome.vm # "done"
         THEN Returned("GenericError", lamports, state)
         ELSE Returned("Ok", lamports,
                  [state EXCEPT ![1].lamports = outcome.lamports,
                                ![1].data =
                                   [i \in 1..Len(@) |-> outcome.buffer[i]]])
    ELSE Returned("GenericError", lamports, state)

\* process_instruction(program_id, keyed_accounts, ix_data), with the
\* signature of account 0 and the outcome of the virtual machine as inputs
process_instruction(signed, instruction, outcome) ==
    IF instruction.tag = "Write"
    THEN IF ~signed THEN Returned("GenericError", lamports, state)
         ELSE IF Len(keyed_accounts[0].data)
                   < instruction.offset + Len(instruction.bytes)
         THEN Returned("GenericError", lamports, state)
         ELSE Returned("Ok", lamports,
                  [state EXCEPT ![0].data =
                      copy_from_slice(@, instruction.offset, instruction.bytes)])
    ELSE IF instruction.tag = "Finalize"
    THEN IF ~signed THEN Returned("GenericError", lamports, state)
         ELSE Returned("Ok", lamports, [state EXCEPT ![0].executable = TRUE])
    ELSE IF instruction.tag = "InvokeMain"
    THEN IF ~keyed_accounts[0].executable
         THEN Returned("GenericError", lamports, state)
         ELSE IF outcome.vm # "done"
         THEN Returned("GenericError", lamports, state)
         ELSE Returned("Ok", lamports,
                  [state EXCEPT ![1].lamports = outcome.lamports,
                                ![1].data =
                                   [i \in 1..Len(@) |-> outcome.buffer[i]]])
    ELSE Returned("GenericError", lamports, state)

\* a program account that is not executable yet and a parameter account
InitLoader ==
    /\ lamports = [a \in Accts |-> 0]
    /\ vote_state = VoteState_default(0)
    /\ \E program \in BytesUpTo(MaxData), data \in BytesUpTo(1) :
          state = [i \in 0..1 |->
                     IF i = 0 THEN Account(1, program, FALSE)
                     ELSE Account(0, data, FALSE)]
    /\ clock = 0
    /\ stake_history = StakeHistory_default
    /\ result = NoResult
    /\ rewound = FALSE

\* An instruction is processed.  What it leaves in the accounts becomes the
\* state; a successful one is remembered until it returns.
Process ==
    \E signed \in BOOLEAN, instruction \in LoaderInstructions, outcome \in VmOutcomes :
      LET r == process_instruction(signed, instruction, outcome)
      IN /\ result = NoResult
         /\ state' = r.state
         /\ result' = IF r.err = "Ok"
                      THEN [op |-> instruction.tag, self |-> "program",
                            signed |-> signed, instruction |-> instruction]
                      ELSE result
         /\ UNCHANGED <<lamports, vote_state, clock, stake_history, rewound>>

NextLoader ==
    \/ Process
    \/ Return

SpecLoader == InitLoader /\ [][NextLoader]_vars


\* ======================================================================
\* Gossip values (core/src/crds_value.rs)
\* ======================================================================

\* the keypairs of the signature tests: one for each pubkey
Keypairs == {[secret |-> "v", pubkey |-> "V"], [secret |-> "w", pubkey |-> "W"]}

\* Signature::default(): the signature no keypair has produced
Signature_default == [secret |-> "none", message |-> << >>]

\* Keypair::sign_message: a signature is what one secret produces for one
\* message, and nothing else produces it
sign_message(keypair, message) == [secret |-> keypair.secret, message |-> message]

\* Signature::verify against a pubkey and a message
Signature_verify(signature, pubkey, message) ==
    \E keypair \in Keypairs :
      /\ keypair.pubkey = pubkey
      /\ signature = sign_message(keypair, message)

\* the elements of a BTreeSet in the order bincode writes them
BTreeSet_iter(slots) ==
    CHOOSE s \in [1..Cardinality(slots) -> slots] :
      \A i, j \in 1..Cardinality(slots) : i < j => s[i] < s[j]

Wallclocks == 0..1
Transactions == 0..1
Roots == 0..1
SlotSets == SUBSET {1, 2}

\* ContactInfo::new_localhost, without the socket addresses
ContactInfo_new(id, now) ==
    [tag |-> "ContactInfo", id |-> id, signature |-> Signature_default, wallclock |-> now]

Vote_new(from, transaction, wallclock) ==
    [tag |-> "Vote", from |-> from, transaction |-> transaction,
     signature |-> Signature_default, wallclock |-> wallclock]

EpochSlots_new(from, root, slots, wallclock) ==
    [tag |-> "EpochSlots", from |-> from, root |-> root, slots |-> slots,
     signature |-> Signature_default, wallclock |-> wallclock]

\* the values a node can build
NewValues ==
    {ContactInfo_new(id, now) : id \in Pubkeys, now \in Wallclocks}
      \cup UNION {{Vote_new(from, transaction, wallclock) :
                     from \in Pubkeys, transaction \in Transactions} :
                  wallclock \in Wallclocks}
      \cup UNION {{EpochSlots_new(from, root, slots, wallclock) :
                     from \in Pubkeys, root \in Roots, slots \in SlotSets} :
                  wallclock \in Wallclocks}

CrdsValue_pubkey(value) ==
    IF value.tag = "ContactInfo" THEN value.id ELSE value.from

\* faulty variant: the signature field is among the bytes the signature covers
signable_data_covers_signature(value) ==
    CASE value.tag = "ContactInfo" -> <<value.id, value.signature, value.wallclock>>
      [] value.tag = "Vote" -> <<value.transaction, value.signature, value.wallclock>>
      [] value.tag = "EpochSlots" ->
           <<value.root, Cardinality(value.slots)>>
             \o BTreeSet_iter(value.slots)
             \o <<value.signature, value.wallclock>>

\* the bytes a signature covers: the SignData of the variant, fields in order
signable_data(value) ==
    CASE value.tag = "ContactInfo" -> <<value.id, value.wallclock>>
      [] value.tag = "Vote" -> <<value.transaction, value.wallclock>>
      [] value.tag = "EpochSlots" ->
           <<value.root, Cardinality(value.slots)>>
             \o BTreeSet_iter(value.slots) \o <<value.wallclock>>

get_signature(value) == value.signature

set_signature(value, signature) == [value EXCEPT !.signature = signature]

\* Signable::sign
sign(value, keypair) ==
    set_signature(value, sign_message(keypair, signable_data(value)))

\* Signable::verify
verify(value) ==
    Signature_verify(get_signature(value), CrdsValue_pubkey(value), signable_data(value))

\* bincode::serialize of a CrdsValue: the variant index, then the fields of
\* the variant in declaration order, a set as its length and its elements
serialize(value) ==
    CASE value.tag = "ContactInfo" ->
           <<0, value.id, value.signature, value.wallclock>>
      [] value.tag = "Vote" ->
           <<1, value.from, value.transaction, value.signature, value.wallclock>>
      [] value.tag = "EpochSlots" ->
           <<2, value.from, value.root, Cardinality(value.slots)>>
             \o BTreeSet_iter(value.slots)
             \o <<value.signature, value.wallclock>>

\* bincode::deserialize of such bytes
deserialize(serialized_value) ==
    CASE serialized_value[1] = 0 ->
           [tag |-> "ContactInfo", id |-> serialized_value[2],
            signature |-> serialized_value[3], wallclock |-> serialized_value[4]]
      [] serialized_value[1] = 1 ->
           [tag |-> "Vote", from |-> serialized_value[2],
            transaction |-> serialized_value[3],
            signature |-> serialized_value[4], wallclock |-> serialized_value[5]]
      [] serialized_value[1] = 2 ->
           LET n == serialized_value[4]
           IN [tag |-> "EpochSlots", from |-> serialized_value[2],
               root |-> serialized_value[3],
               slots |-> {serialized_value[4 + i] : i \in 1..n},
               signature |-> serialized_value[5 + n],
               wallclock |-> serialized_value[6 + n]]

\* a node holds one value, newly built
InitCrds ==
    /\ lamports = [a \in Accts |-> 0]
    /\ vote_state = VoteState_default(0)
    /\ state \in NewValues
    /\ clock = 0
    /\ stake_history = StakeHistory_default
    /\ result = NoResult
    /\ rewound = FALSE

\* a new value replaces the one held
New ==
    \E value \in NewValues :
      /\ result = NoResult
      /\ state' = value
      /\ result' = [op |-> "new", self |-> value.tag, signed |-> FALSE]
      /\ UNCHANGED <<lamports, vote_state, clock, stake_history, rewound>>

\* the value is signed with some keypair
Sign ==
    \E keypair \in Keypairs :
      /\ result = NoResult
      /\ state' = sign(state, keypair)
      /\ result' = [op |-> "sign", self |-> state.tag, signed |-> TRUE,
                    keypair |-> keypair]
      /\ UNCHANGED <<lamports, vote_state, clock, stake_history, rewound>>

\* the value is sent and received: what is held is what deserialize makes of
\* the serialized value
Deserialize ==
    /\ result = NoResult
    /\ state' = deserialize(serialize(state))
    /\ result' = [op |-> "deserialize", self |-> state.tag, signed |-> FALSE]
    /\ UNCHANGED <<lamports, vote_state, clock, stake_history, rewound>>

NextCrds ==
    \/ New
    \/ Sign
    \/ Deserialize
    \/ Return

SpecCrds == InitCrds /\ [][NextCrds]_vars


\* ======================================================================
\* Properties
\* ======================================================================

\* no call is in progress: the next step may call an operation
Calling == result = NoResult

StakeAt(a) == state[a].stake

\* ---------------------------------------------------------------- C1
\* C1 (as claimed): after every successful withdraw on a Stake account the
\* account's remaining lamports are at least the amount that withdraw held
\* back (the effective stake at clock.epoch once clock.epoch >=
\* deactivation_epoch, the full stake before).
C1_WithdrawLeavesLocked ==
    (result.op = "withdraw" /\ state[result.self].tag = "Stake")
        => lamports[result.self] >= withdraw_staked(StakeAt(result.self))

\* ---------------------------------------------------------------- C2
\* C2 (as claimed): a successful redeem_vote_credits credits the stake
\* account with the staker share and the vote account with the voter share
\* of what calculate_rewards returned (voter reward first, staker reward
\* second).
C2_RedeemPaysStakerAndVoter ==
    [][result'.op = "redeem" =>
         \E point_value \in PointValues :
            LET rewards == calculate_rewards(StakeAt(result'.self), point_value,
                                             vote_state, stake_history)
            IN /\ rewards # None
               /\ lamports'[result'.self] = lamports[result'.self] + rewards[2]
               /\ lamports'["vote"] = lamports["vote"] + rewards[1]]_vars

\* ---------------------------------------------------------------- C3
FailsCleanly(r) == r.err # "Ok" => (r.lamports = lamports /\ r.state = state)

\* C3: whenever delegate, deactivate, withdraw or redeem_vote_credits
\* returns an error, every lamport balance and every persisted StakeState
\* is what it was before the call.
C3_ErrorsChangeNothing ==
    Calling =>
      \A self \in StakeAccts, signed \in BOOLEAN :
        /\ \A config \in Configs, new_stake \in Amounts(self) :
             FailsCleanly(delegate_stake(self, signed, "V", new_stake, config))
        /\ FailsCleanly(deactivate_stake(self, signed))
        /\ \A vote_key \in Pubkeys, point_value \in PointValues :
             \A rewards_account \in StakeAccts \ {self} :
               FailsCleanly(redeem_vote_credits(self, signed, vote_key,
                                                rewards_account, point_value))
        /\ \A amount \in Amounts(self), to \in WithdrawTo \ {self} :
             FailsCleanly(withdraw(self, signed, amount, to))

\* a payout was computed and the pool cannot cover it: the last error
\* redeem_vote_credits can return
C3_Witness ==
    /\ Calling
    /\ \E point_value \in PointValues :
          redeem_vote_credits("stake", TRUE, "V", "pool", point_value).err
              = "UnbalancedInstruction"
    /\ \E amount \in Amounts("stake") :
          withdraw("stake", TRUE, amount, "dest").err = "InsufficientFunds"

\* ---------------------------------------------------------------- C4
\* C4 (as claimed): no operation ever increases the lamport balance of an
\* account whose state is RewardsPool.
C4_PoolNeverCredited ==
    [][\A a \in StakeAccts :
          state[a] = RewardsPool => lamports'[a] <= lamports[a]]_vars

\* C4 (amended): the balance of a RewardsPool account goes down only in a
\* successful redeem and goes up only in a successful withdraw that names
\* it as the destination, by exactly what the withdrawing account loses;
\* delegate, deactivate and redeem never increase it.
C4_PoolCreditedOnlyByWithdraw ==
    [][\A a \in StakeAccts :
          state[a] = RewardsPool =>
            /\ lamports'[a] < lamports[a] => result'.op = "redeem"
            /\ lamports'[a] > lamports[a] =>
                 /\ result'.op = "withdraw"
                 /\ result'.self # a
                 /\ lamports'[a] - lamports[a]
                      = lamports[result'.self] - lamports'[result'.self]]_vars

\* a withdraw has just paid into the rewards pool
C4_Witness ==
    /\ result.op = "withdraw"
    /\ state["pool"] = RewardsPool
    /\ lamports["pool"] > PoolLamports

\* ---------------------------------------------------------------- C5
\* C5: delegate, deactivate and withdraw on an unsigned stake account fail
\* with MissingRequiredSignature whatever the account's state, its balance
\* and the amount asked for, and leave everything unchanged.
C5_UnsignedIsRejectedFirst ==
    Calling =>
      \A self \in StakeAccts :
        LET rejected == Returned("MissingRequiredSignature", lamports, state)
        IN /\ \A config \in Configs, new_stake \in Amounts(self) :
                delegate_stake(self, FALSE, "V", new_stake, config) = rejected
           /\ deactivate_stake(self, FALSE) = rejected
           /\ \A amount \in Amounts(self), to \in WithdrawTo \ {self} :
                withdraw(self, FALSE, amount, to) = rejected

\* unsigned calls that would have succeeded had the account signed
C5_Witness ==
    /\ Calling
    /\ state["stake"].tag = "Stake"
    /\ deactivate_stake("stake", TRUE).err = "Ok"
    /\ deactivate_stake("stake", FALSE).err = "MissingRequiredSignature"
    /\ \E amount \in 1..lamports["stake"] :
          /\ withdraw("stake", TRUE, amount, "dest").err = "Ok"
          /\ withdraw("stake", FALSE, amount, "dest").err
                = "MissingRequiredSignature"

\* ---------------------------------------------------------------- C6
\* C6 (as claimed): redeem_vote_credits does not succeed on an unsigned
\* stake account.
C6_RedeemNeedsSignature == result.op = "redeem" => result.signed

\* C6 (amended): redeem_vote_credits does not look at the stake account's
\* signature: on an unsigned stake account it returns what it returns on a
\* signed one and moves the same lamports.
C6_RedeemIgnoresSignature ==
    Calling =>
      \A self \in StakeAccts, vote_key \in Pubkeys, point_value \in PointValues :
        \A rewards_account \in StakeAccts \ {self} :
          redeem_vote_credits(self, FALSE, vote_key, rewards_account, point_value)
            = redeem_vote_credits(self, TRUE, vote_key, rewards_account, point_value)

\* an unsigned redeem has just paid out of the pool
C6_Witness ==
    /\ result.op = "redeem"
    /\ ~result.signed
    /\ lamports["pool"] < PoolLamports

\* ---------------------------------------------------------------- C7
\* C7: a signed delegate on an Uninitialized account with new_stake <=
\* lamports succeeds, writes Stake{new_stake, the vote account's key, the
\* voter's credits(), clock.epoch, MAX, the given config} and moves no
\* lamports.
C7_DelegateWritesStake ==
    Calling =>
      \A self \in StakeAccts, config \in Configs : \A new_stake \in Amounts(self) :
        (state[self] = Uninitialized /\ new_stake <= lamports[self]) =>
           delegate_stake(self, TRUE, "V", new_stake, config)
             = Returned("Ok", lamports,
                  [state EXCEPT ![self] =
                     [tag |-> "Stake",
                      stake |-> [voter_pubkey |-> "V",
                                 credits_observed |-> vote_state.credits,
                                 stake |-> new_stake,
                                 activation_epoch |-> clock,
                                 deactivation_epoch |-> U64_MAX,
                                 config |-> config]]])

\* a delegate has just succeeded after the voter earned credits, in a later
\* epoch, with a config that is not the default, for part of the balance
C7_Witness ==
    /\ result.op = "delegate"
    /\ state[result.self].tag = "Stake"
    /\ StakeAt(result.self).credits_observed > 0
    /\ StakeAt(result.self).activation_epoch = clock
    /\ clock > 0
    /\ StakeAt(result.self).config # Config_default
    /\ StakeAt(result.self).stake > 0
    /\ StakeAt(result.self).stake < lamports[result.self]

\* ---------------------------------------------------------------- C8
\* C8: a signed delegate fails with InsufficientFunds when new_stake >
\* lamports, whatever the state; otherwise it fails with InvalidAccountData
\* unless the account is Uninitialized.  It never succeeds on a Stake or a
\* RewardsPool account.
C8_DelegateErrors ==
    Calling =>
      \A self \in StakeAccts, config \in Configs : \A new_stake \in Amounts(self) :
        LET r == delegate_stake(self, TRUE, "V", new_stake, config)
        IN /\ new_stake > lamports[self] => r.err = "InsufficientFunds"
           /\ (new_stake <= lamports[self] /\ state[self] # Uninitialized)
                => r.err = "InvalidAccountData"
           /\ state[self] # Uninitialized => r.err # "Ok"

\* second delegates on an account that is already Stake: one within the
\* balance, one above it
C8_Witness ==
    /\ Calling
    /\ state["stake"].tag = "Stake"
    /\ ~is_bootstrap(StakeAt("stake"))
    /\ lamports["stake"] > 0
    /\ delegate_stake("stake", TRUE, "V", lamports["stake"], Config_default).err
          = "InvalidAccountData"
    /\ delegate_stake("stake", TRUE, "V", lamports["stake"] + 1, Config_default).err
          = "InsufficientFunds"

\* ---------------------------------------------------------------- C9
\* C9: a signed deactivate succeeds exactly on a Stake account (otherwise
\* InvalidAccountData); it sets deactivation_epoch to clock.epoch and leaves
\* every other field of the stake, the variant and every balance alone.
C9_DeactivateSetsOnlyEpoch ==
    Calling =>
      \A self \in StakeAccts :
        LET r == deactivate_stake(self, TRUE)
        IN IF state[self].tag = "Stake"
           THEN r = Returned("Ok", lamports,
                       [state EXCEPT ![self] =
                          [tag |-> "Stake",
                           stake |-> [voter_pubkey |-> StakeAt(self).voter_pubkey,
                                      credits_observed |-> StakeAt(self).credits_observed,
                                      stake |-> StakeAt(self).stake,
                                      activation_epoch |-> StakeAt(self).activation_epoch,
                                      deactivation_epoch |-> clock,
                                      config |-> StakeAt(self).config]]])
           ELSE r = Returned("InvalidAccountData", lamports, state)

\* a deactivate has just succeeded on a stake delegated in an earlier epoch
\* that carries a credits watermark
C9_Witness ==
    /\ result.op = "deactivate"
    /\ state[result.self].tag = "Stake"
    /\ StakeAt(result.self).deactivation_epoch = clock
    /\ StakeAt(result.self).activation_epoch < clock
    /\ StakeAt(result.self).credits_observed > 0
    /\ StakeAt(result.self).stake > 0

\* ---------------------------------------------------------------- C10
EpochsOrdered ==
    \A a \in StakeAccts :
      state[a].tag = "Stake" =>
        \/ is_bootstrap(StakeAt(a))
        \/ StakeAt(a).activation_epoch <= StakeAt(a).deactivation_epoch

\* C10 (as claimed): activation_epoch <= deactivation_epoch in every
\* reachable state unless the stake is a bootstrap stake, whatever clock
\* values delegate and deactivate are called with.
C10_EpochsOrderedAnyClock == EpochsOrdered

\* C10 (amended): activation_epoch <= deactivation_epoch unless the stake is
\* a bootstrap stake, as long as the clock handed to the operations never
\* goes back.
C10_EpochsOrderedForwardClock == ~rewound => EpochsOrdered

\* a stake deactivated in the epoch it was delegated in, under a clock that
\* only moved forward
C10_Witness ==
    /\ ~rewound
    /\ state["stake"].tag = "Stake"
    /\ ~is_bootstrap(StakeAt("stake"))
    /\ StakeAt("stake").activation_epoch > 0
    /\ StakeAt("stake").deactivation_epoch = StakeAt("stake").activation_epoch


\* ---------------------------------------------------------------- C11
\* C11: once an account is Stake it stays Stake, and no later delegate,
\* deactivate, withdraw or redeem changes its stake amount, voter_pubkey,
\* activation_epoch or config; only deactivation_epoch and credits_observed
\* can change.
C11_StakeFieldsFrozen ==
    [][\A a \in StakeAccts :
          state[a].tag = "Stake" =>
            /\ state'[a].tag = "Stake"
            /\ state'[a].stake.stake = StakeAt(a).stake
            /\ state'[a].stake.voter_pubkey = StakeAt(a).voter_pubkey
            /\ state'[a].stake.activation_epoch = StakeAt(a).activation_epoch
            /\ state'[a].stake.config = StakeAt(a).config]_vars

\* a delegated stake that has since been deactivated, has redeemed credits
\* and has had lamports withdrawn
C11_Witness ==
    /\ state["stake"].tag = "Stake"
    /\ ~is_bootstrap(StakeAt("stake"))
    /\ StakeAt("stake").stake > 0
    /\ StakeAt("stake").deactivation_epoch # U64_MAX
    /\ StakeAt("stake").credits_observed > 0
    /\ lamports["stake"] < StakeAt("stake").stake

\* ---------------------------------------------------------------- C12
\* C12: credits_observed of a stake never decreases, and every successful
\* redeem_vote_credits leaves it strictly greater than before and no
\* greater than the voter's credits().
C12_CreditsObservedGrows ==
    [][\A a \in StakeAccts :
          state[a].tag = "Stake" =>
            /\ state'[a].tag = "Stake"
            /\ state'[a].stake.credits_observed >= StakeAt(a).credits_observed
            /\ (result'.op = "redeem" /\ result'.self = a) =>
                 /\ state'[a].stake.credits_observed > StakeAt(a).credits_observed
                 /\ state'[a].stake.credits_observed
                      <= VoteState_credits(vote_state)]_vars

\* a redeem has just moved the watermark of a stake delegated after the
\* voter's first credit, to a value still below the voter's credits()
C12_Witness ==
    /\ result.op = "redeem"
    /\ ~is_bootstrap(StakeAt(result.self))
    /\ StakeAt(result.self).credits_observed > 0
    /\ StakeAt(result.self).credits_observed < VoteState_credits(vote_state)

\* ---------------------------------------------------------------- C13
\* the states an operation's result leaves RewardsPool accounts in
KeepsRewardsPools(r) ==
    \A a \in StakeAccts : state[a] = RewardsPool => r.state[a] = RewardsPool

\* C13: no operation, whatever its inputs and whichever role the account
\* plays in it, changes the state of a RewardsPool account; delegate,
\* deactivate, withdraw and redeem called on a RewardsPool account as the
\* stake account all fail, a signed withdraw or deactivate with
\* InvalidAccountData.
C13_RewardsPoolIsTerminal ==
    Calling =>
      \A self \in StakeAccts, signed \in BOOLEAN :
        LET pool == state[self] = RewardsPool
            deactivated == deactivate_stake(self, signed)
        IN /\ \A config \in Configs, new_stake \in Amounts(self) :
                LET r == delegate_stake(self, signed, "V", new_stake, config)
                IN KeepsRewardsPools(r) /\ (pool => r.err # "Ok")
           /\ KeepsRewardsPools(deactivated)
           /\ pool => deactivated.err # "Ok"
           /\ (pool /\ signed) => deactivated.err = "InvalidAccountData"
           /\ \A vote_key \in Pubkeys, point_value \in PointValues :
                \A rewards_account \in StakeAccts \ {self} :
                  LET r == redeem_vote_credits(self, signed, vote_key,
                                               rewards_account, point_value)
                  IN KeepsRewardsPools(r) /\ (pool => r.err # "Ok")
           /\ \A amount \in Amounts(self), to \in WithdrawTo \ {self} :
                LET r == withdraw(self, signed, amount, to)
                IN /\ KeepsRewardsPools(r)
                   /\ pool => r.err # "Ok"
                   /\ (pool /\ signed) => r.err = "InvalidAccountData"

\* a pool that has paid rewards and received a withdrawal, asked to pay out
\* an amount it holds
C13_Witness ==
    /\ Calling
    /\ state["pool"] = RewardsPool
    /\ lamports["pool"] > 0
    /\ lamports["pool"] + lamports["vote"] > PoolLamports
    /\ lamports["vote"] > 0
    /\ withdraw("pool", TRUE, 1, "dest").err = "InvalidAccountData"
    /\ deactivate_stake("pool", TRUE).err = "InvalidAccountData"


\* ---------------------------------------------------------------- C14
\* the schedule has just been evaluated for the stake, at epoch clock
Evaluated == result.op = "stake_activating_and_deactivating"

\* C14: for every stake, epoch and history the triple has effective <=
\* stake, and effective + activating <= stake whenever epoch <
\* deactivation_epoch.
C14_EffectiveWithinStake ==
    Evaluated =>
      /\ result.triple[1] <= StakeAt("stake").stake
      /\ clock < StakeAt("stake").deactivation_epoch
           => result.triple[1] + result.triple[2] <= StakeAt("stake").stake

\* a stake part of the way through its warmup, not yet deactivated
C14_Witness ==
    /\ Evaluated
    /\ clock < StakeAt("stake").deactivation_epoch
    /\ result.triple[1] > 0
    /\ result.triple[2] > 0
    /\ result.triple[1] + result.triple[2] = StakeAt("stake").stake

\* ---------------------------------------------------------------- C15
\* C15: for every stake, epoch and history, deactivating <= effective and
\* effective + activating + deactivating <= 2 * stake.
C15_DeactivatingWithinEffective ==
    Evaluated =>
      /\ result.triple[3] <= result.triple[1]
      /\ result.triple[1] + result.triple[2] + result.triple[3]
           <= 2 * StakeAt("stake").stake

\* a stake deactivated part of the way through its warmup, seen at its
\* deactivation epoch
C15_Witness ==
    /\ Evaluated
    /\ clock = StakeAt("stake").deactivation_epoch
    /\ result.triple[1] > 0
    /\ result.triple[1] < StakeAt("stake").stake
    /\ result.triple[3] = result.triple[1]

\* ---------------------------------------------------------------- C16
\* C16 (as claimed): a bootstrap stake has triple (stake, 0, 0) at every
\* epoch and for every history, also once it has a deactivation epoch.
C16_BootstrapAlwaysFull ==
    (Evaluated /\ is_bootstrap(StakeAt("stake")))
        => result.triple = <<StakeAt("stake").stake, 0, 0>>

\* C16 (amended): a bootstrap stake has triple (stake, 0, 0) at every epoch
\* before its deactivation_epoch, whatever the history; at its
\* deactivation_epoch the triple is (stake, 0, stake), and after it the
\* stake cools down like any other: (e, 0, e) with e <= stake.
C16_BootstrapFullUntilDeactivated ==
    (Evaluated /\ is_bootstrap(StakeAt("stake"))) =>
       IF clock < StakeAt("stake").deactivation_epoch
       THEN result.triple = <<StakeAt("stake").stake, 0, 0>>
       ELSE IF clock = StakeAt("stake").deactivation_epoch
       THEN result.triple = <<StakeAt("stake").stake, 0, StakeAt("stake").stake>>
       ELSE /\ result.triple[1] <= StakeAt("stake").stake
            /\ result.triple[2] = 0
            /\ result.triple[3] = result.triple[1]

\* a bootstrap stake that will be deactivated, seen before that epoch under
\* a history that holds entries
C16_Witness ==
    /\ Evaluated
    /\ is_bootstrap(StakeAt("stake"))
    /\ StakeAt("stake").stake > 0
    /\ StakeAt("stake").deactivation_epoch # U64_MAX
    /\ clock > 0
    /\ clock < StakeAt("stake").deactivation_epoch
    /\ DOMAIN stake_history # {}

\* ---------------------------------------------------------------- C17
\* C17 (as claimed): at its activation epoch a stake that is not bootstrap
\* has triple (0, stake, 0), for every history and every deactivation epoch
\* from the activation epoch on, the activation epoch itself included.
C17_AllActivatingAtActivation ==
    (/\ Evaluated
     /\ ~is_bootstrap(StakeAt("stake"))
     /\ clock = StakeAt("stake").activation_epoch
     /\ StakeAt("stake").activation_epoch <= StakeAt("stake").deactivation_epoch)
        => result.triple = <<0, StakeAt("stake").stake, 0>>

\* C17 (amended): at its activation epoch a stake that is not bootstrap has
\* triple (0, stake, 0) when it is deactivated later or never, and
\* (0, 0, 0) when its deactivation_epoch is the activation epoch or an
\* earlier one.
C17_AllActivatingUnlessDeactivated ==
    (/\ Evaluated
     /\ ~is_bootstrap(StakeAt("stake"))
     /\ clock = StakeAt("stake").activation_epoch)
        => IF StakeAt("stake").activation_epoch
                < StakeAt("stake").deactivation_epoch
           THEN result.triple = <<0, StakeAt("stake").stake, 0>>
           ELSE result.triple = <<0, 0, 0>>

\* a stake seen at its activation epoch, deactivated in a later epoch, with
\* the history holding an entry for that activation epoch
C17_Witness ==
    /\ Evaluated
    /\ ~is_bootstrap(StakeAt("stake"))
    /\ StakeAt("stake").stake > 0
    /\ clock = StakeAt("stake").activation_epoch
    /\ clock > 0
    /\ clock < StakeAt("stake").deactivation_epoch
    /\ StakeAt("stake").deactivation_epoch # U64_MAX
    /\ clock \in DOMAIN stake_history
    /\ result.triple = <<0, StakeAt("stake").stake, 0>>

\* ---------------------------------------------------------------- C18
\* C18: with no history entries, a stake with activation_epoch A <
\* deactivation_epoch D has triple (0, stake, 0) at A, (stake, 0, 0) at
\* every epoch strictly between A and D, (stake, 0, stake) at D and
\* (0, 0, 0) at every epoch after D.
C18_StepFunctionWithoutHistory ==
    (/\ Evaluated
     /\ DOMAIN stake_history = {}
     /\ StakeAt("stake").activation_epoch < StakeAt("stake").deactivation_epoch
     /\ clock >= StakeAt("stake").activation_epoch)
        => result.triple =
             IF clock = StakeAt("stake").activation_epoch
             THEN <<0, StakeAt("stake").stake, 0>>
             ELSE IF clock < StakeAt("stake").deactivation_epoch
             THEN <<StakeAt("stake").stake, 0, 0>>
             ELSE IF clock = StakeAt("stake").deactivation_epoch
             THEN <<StakeAt("stake").stake, 0, StakeAt("stake").stake>>
             ELSE <<0, 0, 0>>

\* without history, a stake seen after its deactivation epoch, which came
\* at least two epochs after its activation
C18_Witness ==
    /\ Evaluated
    /\ DOMAIN stake_history = {}
    /\ StakeAt("stake").stake > 0
    /\ StakeAt("stake").activation_epoch + 1 < StakeAt("stake").deactivation_epoch
    /\ clock > StakeAt("stake").deactivation_epoch
    /\ result.triple = <<0, 0, 0>>


\* ---------------------------------------------------------------- C19
\* the total effective stake of the scheduled stakes at an epoch
total_effective_stake(epoch) ==
    fold_stakes(scheduled_stakes, epoch, stake_history)[1]

\* the change of the total from the previous epoch to the current one
delta ==
    IF total_effective_stake(clock) > total_effective_stake(clock - 1)
    THEN total_effective_stake(clock) - total_effective_stake(clock - 1)
    ELSE total_effective_stake(clock - 1) - total_effective_stake(clock)

\* C19 (as claimed): for any set of stakes whose history is built epoch by
\* epoch from those stakes, the total effective stake changes from one
\* epoch to the next by at most max(1, floor(previous total * warmup_rate)).
C19_TotalChangeWithinRate ==
    clock > 0 =>
      delta <= Max((total_effective_stake(clock - 1)
                      * Config_default.warmup_rate) \div RateDen, 1)


\* ---------------------------------------------------------------- C20
\* a scheduled stake's effective amount at an epoch
effective_at(i, epoch) == Stake_stake(state[i].stake, epoch, stake_history)

\* C20 (as claimed): under a history with a builder-made entry for every
\* epoch, a delegated stake always makes progress: from one epoch to the
\* next its effective amount grows by at least 1 until it equals the stake
\* amount, and after its deactivation epoch it shrinks by at least 1 until
\* it is 0, where it stays.
C20_AlwaysMakesProgress ==
    clock > 0 =>
      \A i \in ScheduledIds :
        LET stake == state[i].stake
        IN ~is_bootstrap(stake) =>
             /\ (stake.activation_epoch < clock /\ clock <= stake.deactivation_epoch)
                  => effective_at(i, clock)
                       >= Min(stake.stake, effective_at(i, clock - 1) + 1)
             /\ clock > stake.deactivation_epoch
                  => IF effective_at(i, clock - 1) > 0
                     THEN effective_at(i, clock) < effective_at(i, clock - 1)
                     ELSE effective_at(i, clock) = 0


\* ---------------------------------------------------------------- C21
\* every order in which the scheduled stakes can be iterated
ScheduledOrders ==
    {order \in [1..Cardinality(ScheduledIds) -> ScheduledIds] :
        \A i, j \in DOMAIN order : i # j => order[i] # order[j]}

\* C21: the entry new_stake_history_entry makes for an epoch is the
\* pointwise sum of the stakes' triples at that epoch under the history so
\* far, whatever the order the stakes come in, and it is (0, 0, 0) when
\* there are no stakes.
C21_EntryIsPointwiseSum ==
    [][clock' = clock + 1 =>
         LET triple(i) == stake_activating_and_deactivating(
                              state[i].stake, clock, stake_history)
             sum == [effective |-> triple("first")[1] + triple("second")[1]
                                     + triple("third")[1],
                     activating |-> triple("first")[2] + triple("second")[2]
                                      + triple("third")[2],
                     deactivating |-> triple("first")[3] + triple("second")[3]
                                        + triple("third")[3]]
         IN /\ stake_history'[clock] = sum
            /\ \A order \in ScheduledOrders :
                 new_stake_history_entry(clock,
                     [k \in DOMAIN order |-> state[order[k]].stake],
                     stake_history) = sum
            /\ new_stake_history_entry(clock, << >>, stake_history)
                 = [effective |-> 0, activating |-> 0, deactivating |-> 0]]_vars

\* an entry made from three different stakes with stake effective,
\* activating and deactivating at once, and differing deactivating amounts
C21_Witness ==
    /\ clock > 0
    /\ stake_history[clock - 1].effective > 0
    /\ stake_history[clock - 1].activating > 0
    /\ stake_history[clock - 1].deactivating > 0
    /\ state["first"] # state["second"]
    /\ state["second"] # state["third"]
    /\ state["first"] # state["third"]
    /\ stake_activating_and_deactivating(state["first"].stake, clock - 1,
                                         stake_history)[3]
         # stake_activating_and_deactivating(state["third"].stake, clock - 1,
                                             stake_history)[3]


\* ---------------------------------------------------------------- C22
\* the history without its entry for an epoch
StakeHistory_without(history, epoch) ==
    [e \in (DOMAIN history) \ {epoch} |-> history[e]]

\* C22: the triple of a stake at epoch E is the same under every history
\* that agrees on the epochs before E: adding, changing or removing the
\* entry of any epoch >= E leaves it unchanged.  (Every history is an
\* initial state, so one entry at a time covers any number of them.)
C22_OnlyPriorEntriesMatter ==
    Evaluated =>
      \A epoch \in Epochs :
        epoch >= clock =>
          /\ stake_activating_and_deactivating(StakeAt("stake"), clock,
                 StakeHistory_without(stake_history, epoch)) = result.triple
          /\ \A entry \in HistoryEntries :
               stake_activating_and_deactivating(StakeAt("stake"), clock,
                   StakeHistory_add(stake_history, epoch, entry)) = result.triple

\* a stake part of the way through its cooldown, under a history that also
\* holds an entry for the epoch asked about
C22_Witness ==
    /\ Evaluated
    /\ clock \in DOMAIN stake_history
    /\ clock > StakeAt("stake").deactivation_epoch
    /\ ~is_bootstrap(StakeAt("stake"))
    /\ stake_history[clock].deactivating > 0
    /\ result.triple[1] > 0
    /\ result.triple[1] < StakeAt("stake").stake


\* ---------------------------------------------------------------- C23
\* what a redeem that returned r paid to account a
paid(r, a) == r.lamports[a] - lamports[a]

\* a redeem called right before the step and the same redeem called right
\* after it return the same error and pay the same amounts
SameRedeemAcross(self) ==
    \A vote_key \in Pubkeys, point_value \in PointValues :
      \A rewards_account \in StakeAccts \ {self} :
        /\ redeem_vote_credits(self, TRUE, vote_key, rewards_account, point_value).err
             = redeem_vote_credits(self, TRUE, vote_key, rewards_account, point_value).err'
        /\ \A a \in Accts :
             paid(redeem_vote_credits(self, TRUE, vote_key, rewards_account, point_value), a)
               = paid(redeem_vote_credits(self, TRUE, vote_key, rewards_account, point_value), a)'

\* C23: a deactivate of a stake account changes nothing about what a redeem
\* of the same account pays in that epoch: the redeem returns the same
\* error and pays the same amounts whether it comes before the deactivate
\* or after it.
C23_DeactivateOrderIrrelevant ==
    [][\A self \in StakeAccts :
         (result = NoResult /\ result' = [op |-> "deactivate", self |-> self, signed |-> TRUE])
           => SameRedeemAcross(self)]_vars

\* the same, for the deactivate of a stake that was not deactivated before
C23_FirstDeactivateOrderIrrelevant ==
    [][\A self \in StakeAccts :
         (/\ result = NoResult
          /\ result' = [op |-> "deactivate", self |-> self, signed |-> TRUE]
          /\ StakeAt(self).deactivation_epoch = U64_MAX)
           => SameRedeemAcross(self)]_vars


\* ---------------------------------------------------------------- C24
\* the credits an epoch_credits item stands for: prev_credits + 1 .. credits
credits_of(item) == (item[3] + 1)..item[2]

\* how many of an item's credits lie above the stake's credits_observed
counted(self, item) ==
    Cardinality({c \in credits_of(item) : c > self.credits_observed})

RECURSIVE weighted_credits(_, _, _, _)
\* the sum over the items from the i-th on of counted * effective stake
weighted_credits(self, epoch_credits, history, i) ==
    IF i > Len(epoch_credits) THEN 0
    ELSE counted(self, epoch_credits[i])
           * Stake_stake(self, epoch_credits[i][1], history)
         + weighted_credits(self, epoch_credits, history, i + 1)

RECURSIVE sum_counted(_, _, _)
sum_counted(self, epoch_credits, i) ==
    IF i > Len(epoch_credits) THEN 0
    ELSE counted(self, epoch_credits[i]) + sum_counted(self, epoch_credits, i + 1)

\* the credits of the last item of epoch_credits
latest_recorded(epoch_credits) ==
    IF epoch_credits = << >> THEN 0 ELSE epoch_credits[Len(epoch_credits)][2]

\* C24: calculate_rewards counts every recorded credit above the stake's
\* credits_observed exactly once (the whole delta of an epoch after the
\* watermark, credits - credits_observed of the epoch that straddles it,
\* nothing of an epoch already observed), so the counts add up to latest
\* recorded credits - credits_observed; each epoch's count is weighted by
\* the effective stake at that epoch, and the watermark returned is the
\* latest recorded credits.
C24_EachCreditCountedOnce ==
    LET self == StakeAt("stake")
        epoch_credits == VoteState_epoch_credits(vote_state)
        latest == latest_recorded(epoch_credits)
    IN /\ sum_counted(self, epoch_credits, 1)
            = Max(latest - self.credits_observed, 0)
       /\ \A point_value \in PointValues :
            LET acc == rewards_loop(self, point_value, epoch_credits,
                                    stake_history, 1, self.credits_observed, 0)
                rewards == calculate_rewards(self, point_value, vote_state,
                                             stake_history)
                split == commission_split(vote_state, acc[2])
            IN /\ acc[2] = weighted_credits(self, epoch_credits, stake_history, 1)
                             * point_value * U8_MAX
               /\ acc[1] = Max(latest, self.credits_observed)
               /\ rewards # None =>
                    /\ rewards[3] = latest
                    /\ rewards[1] = split[1] \div RewardDen
                    /\ rewards[2] = split[2] \div RewardDen

\* rewards were paid for a voter with an epoch already observed, an epoch
\* that straddles credits_observed and an epoch after it, by a stake whose
\* effective amount differs between those epochs
C24_Witness ==
    LET self == StakeAt("stake")
        epoch_credits == VoteState_epoch_credits(vote_state)
    IN /\ result.op = "calculate_rewards"
       /\ result.rewards # None
       /\ \E i, j, k \in DOMAIN epoch_credits :
            /\ epoch_credits[i][2] <= self.credits_observed
            /\ epoch_credits[i][2] > epoch_credits[i][3]
            /\ epoch_credits[j][3] < self.credits_observed
            /\ self.credits_observed < epoch_credits[j][2]
            /\ self.credits_observed < epoch_credits[k][3]
            /\ Stake_stake(self, epoch_credits[j][1], stake_history)
                 # Stake_stake(self, epoch_credits[k][1], stake_history)


\* ---------------------------------------------------------------- C25
\* the stake account is Stake and the rewards account is RewardsPool
RedeemStatesFit(self, rewards_account) ==
    state[self].tag = "Stake" /\ state[rewards_account] = RewardsPool

\* C25: redeem_vote_credits fails with InvalidAccountData unless the stake
\* account is Stake and the rewards account is RewardsPool, and with
\* InvalidArgument when the vote account's key is not the stake's
\* voter_pubkey; both answers come before any reward is calculated or any
\* lamport moves, so they do not depend on the credits or on the pool's
\* balance, and nothing has changed when they are returned.  (The stake
\* account itself stands in for a rewards account that is not a
\* RewardsPool.)
C25_RedeemChecksAccountsFirst ==
    Calling =>
      \A self \in StakeAccts, rewards_account \in StakeAccts :
        \A signed \in BOOLEAN, vote_key \in Pubkeys, point_value \in PointValues :
          LET r == redeem_vote_credits(self, signed, vote_key,
                                       rewards_account, point_value)
          IN /\ ~RedeemStatesFit(self, rewards_account)
                  => r.err = "InvalidAccountData"
             /\ (RedeemStatesFit(self, rewards_account)
                 /\ StakeAt(self).voter_pubkey # vote_key)
                  => r.err = "InvalidArgument"
             /\ r.err \in {"InvalidAccountData", "InvalidArgument"}
                  => (r.lamports = lamports /\ r.state = state)

\* a redeem that would pay out with the right vote account is refused with
\* the wrong one, and is refused when a Stake account is named as the pool
C25_Witness ==
    /\ Calling
    /\ \E point_value \in PointValues :
          /\ redeem_vote_credits("stake", TRUE, "V", "pool", point_value).err = "Ok"
          /\ redeem_vote_credits("stake", TRUE, "W", "pool", point_value).err
               = "InvalidArgument"
          /\ redeem_vote_credits("stake", TRUE, "V", "stake", point_value).err
               = "InvalidAccountData"
          /\ redeem_vote_credits("pool", TRUE, "V", "stake", point_value).err
               = "InvalidAccountData"

\* ---------------------------------------------------------------- C26
\* the points the stake has earned and not redeemed, times the point value:
\* the total reward in 1/PointDen lamports
reward_halves(self, point_value) ==
    weighted_credits(self, VoteState_epoch_credits(vote_state), stake_history, 1)
      * point_value

\* nothing to collect: no new credit, a total below one lamport, or a
\* commission that splits the total and leaves a share below one lamport
NoPayout(self, point_value) ==
    \/ self.credits_observed >= VoteState_credits(vote_state)
    \/ reward_halves(self, point_value) < PointDen
    \/ /\ vote_state.commission \notin {0, U8_MAX}
       /\ \/ reward_halves(self, point_value) * vote_state.commission
               < PointDen * U8_MAX
          \/ reward_halves(self, point_value) * (U8_MAX - vote_state.commission)
               < PointDen * U8_MAX

\* C26: a redeem_vote_credits that passes the account and key checks fails
\* with CustomError(1) exactly when there is no payout: credits_observed >=
\* the voter's credits(), a total reward below one lamport, or a split
\* commission with a share below one lamport.  credits_observed is then
\* left as it was.
C26_NothingToCollect ==
    Calling =>
      \A self \in StakeAccts, point_value \in PointValues :
        RedeemStatesFit(self, "pool") =>
          LET r == redeem_vote_credits(self, TRUE, StakeAt(self).voter_pubkey,
                                       "pool", point_value)
          IN /\ r.err = "CustomError(1)" <=> NoPayout(StakeAt(self), point_value)
             /\ r.err = "CustomError(1)" => r.state = state
             /\ NoPayout(StakeAt(self), point_value)
                  <=> calculate_rewards(StakeAt(self), point_value,
                                        vote_state, stake_history) = None

\* the total is a lamport or more, the commission splits it and a share
\* falls below one lamport
C26_Witness ==
    /\ Calling
    /\ state["stake"].tag = "Stake"
    /\ \E point_value \in PointValues :
          /\ StakeAt("stake").credits_observed < VoteState_credits(vote_state)
          /\ reward_halves(StakeAt("stake"), point_value) >= PointDen
          /\ redeem_vote_credits("stake", TRUE, "V", "pool", point_value).err
               = "CustomError(1)"

\* ---------------------------------------------------------------- C27
\* C27: when calculate_rewards has given a payout and the rewards pool
\* holds less than voter reward + staker reward, redeem_vote_credits fails
\* with UnbalancedInstruction; no balance moves and credits_observed stays.
C27_PoolMustCoverPayout ==
    Calling =>
      \A self \in StakeAccts, point_value \in PointValues :
        LET rewards == calculate_rewards(StakeAt(self), point_value,
                                         vote_state, stake_history)
            r == redeem_vote_credits(self, TRUE, StakeAt(self).voter_pubkey,
                                     "pool", point_value)
        IN (/\ RedeemStatesFit(self, "pool")
            /\ rewards # None
            /\ lamports["pool"] < rewards[1] + rewards[2])
             => /\ r.err = "UnbalancedInstruction"
                /\ r.lamports = lamports
                /\ r.state = state

\* the pool still holds lamports, enough for the payout at one point value
\* and too few at another
C27_Witness ==
    /\ Calling
    /\ lamports["pool"] > 0
    /\ \E low, high \in PointValues :
          /\ redeem_vote_credits("stake", FALSE, "V", "pool", low).err = "Ok"
          /\ redeem_vote_credits("stake", FALSE, "V", "pool", high).err
               = "UnbalancedInstruction"


\* ---------------------------------------------------------------- C28
\* the lamports of an account that a withdraw may not take
locked(self) ==
    IF state[self] = Uninitialized THEN 0
    ELSE IF clock < StakeAt(self).deactivation_epoch THEN StakeAt(self).stake
    ELSE Stake_stake(StakeAt(self), clock, stake_history)

\* C28: a signed withdraw of n lamports from an Uninitialized or Stake
\* account succeeds exactly when n <= balance - locked (0 when locked
\* exceeds the balance) and fails with InsufficientFunds otherwise, where
\* locked is 0 for Uninitialized, the whole stake while clock.epoch <
\* deactivation_epoch (also before the activation epoch) and the effective
\* stake at clock.epoch from the deactivation epoch on; on any other state
\* it fails with InvalidAccountData.
C28_WithdrawUpToUnlocked ==
    Calling =>
      \A self \in StakeAccts :
        \A amount \in Amounts(self), to \in WithdrawTo \ {self} :
          LET r == withdraw(self, TRUE, amount, to)
          IN IF state[self] = Uninitialized \/ state[self].tag = "Stake"
             THEN r.err = IF amount <= Max(lamports[self] - locked(self), 0)
                          THEN "Ok" ELSE "InsufficientFunds"
             ELSE r.err = "InvalidAccountData"

\* an account delegated at a later epoch than the clock's: nothing of the
\* stake is effective yet, all of it is held back and the rest can go
C28_Witness ==
    /\ Calling
    /\ state["stake"].tag = "Stake"
    /\ ~is_bootstrap(StakeAt("stake"))
    /\ clock < StakeAt("stake").activation_epoch
    /\ StakeAt("stake").stake > 0
    /\ lamports["stake"] > StakeAt("stake").stake
    /\ Stake_stake(StakeAt("stake"), clock, stake_history) = 0
    /\ withdraw("stake", TRUE, lamports["stake"] - StakeAt("stake").stake, "dest").err
          = "Ok"
    /\ withdraw("stake", TRUE, lamports["stake"] - StakeAt("stake").stake + 1, "dest").err
          = "InsufficientFunds"

\* a withdraw has taken lamports from a stake part of the way through its
\* cooldown
C28_WitnessCoolingDown ==
    /\ result.op = "withdraw"
    /\ state[result.self].tag = "Stake"
    /\ clock > StakeAt(result.self).deactivation_epoch
    /\ locked(result.self) > 0
    /\ locked(result.self) < StakeAt(result.self).stake
    /\ lamports[result.self] < StakeAt(result.self).stake


\* ---------------------------------------------------------------- C29
\* the lamports of the stake account, the withdraw destination, the vote
\* account and the rewards pool together
total_lamports(balances) ==
    balances["stake"] + balances["dest"] + balances["vote"] + balances["pool"]

Conserves(r) == total_lamports(r.lamports) = total_lamports(lamports)

\* C29: no operation, whether it succeeds or fails, changes the sum of the
\* lamports of the stake account, the withdraw destination, the vote
\* account and the rewards pool.  A successful withdraw takes exactly the
\* amount asked from the stake account and adds it to the destination; a
\* successful redeem takes from the pool exactly what it adds to the stake
\* and vote accounts.
C29_LamportsConserved ==
    /\ total_lamports(lamports) = MaxLamports + PoolLamports
    /\ Calling =>
         \A self \in StakeAccts, signed \in BOOLEAN :
           /\ \A config \in Configs, new_stake \in Amounts(self) :
                Conserves(delegate_stake(self, signed, "V", new_stake, config))
           /\ Conserves(deactivate_stake(self, signed))
           /\ \A vote_key \in Pubkeys, point_value \in PointValues :
                \A rewards_account \in StakeAccts \ {self} :
                  LET r == redeem_vote_credits(self, signed, vote_key,
                                               rewards_account, point_value)
                  IN /\ Conserves(r)
                     /\ r.err = "Ok" =>
                          /\ r.lamports["dest"] = lamports["dest"]
                          /\ paid(r, self) >= 0
                          /\ paid(r, "vote") >= 0
                          /\ -paid(r, rewards_account)
                               = paid(r, self) + paid(r, "vote")
           /\ \A amount \in Amounts(self), to \in WithdrawTo \ {self} :
                LET r == withdraw(self, signed, amount, to)
                IN /\ Conserves(r)
                   /\ r.err = "Ok" =>
                        /\ paid(r, self) = -amount
                        /\ paid(r, to) = amount
                        /\ \A a \in Accts \ {self, to} : paid(r, a) = 0

\* lamports have been withdrawn to the destination and a redeem has just
\* paid the stake account out of the pool
C29_Witness ==
    /\ result.op = "redeem"
    /\ lamports["dest"] > 0
    /\ lamports["pool"] < PoolLamports
    /\ lamports["stake"] + lamports["vote"] + lamports["dest"] > MaxLamports


\* ---------------------------------------------------------------- C30
\* C30: once a withdraw has taken the last lamport of a deactivated stake
\* account, the account is Uninitialized again (and so can be delegated
\* again).
C30_DrainedIsUninitialized ==
    \A self \in StakeAccts :
      (/\ result.op = "withdraw"
       /\ result.self = self
       /\ lamports[self] = 0)
        => \/ state[self] = Uninitialized
           \/ /\ state[self].tag = "Stake"
              /\ StakeAt(self).deactivation_epoch = U64_MAX

\* what the code does instead: withdraw never writes the state, and a
\* drained account that is still Stake refuses every further delegate
C30_WithdrawKeepsState ==
    /\ [][result'.op = "withdraw" /\ result = NoResult => state' = state]_vars
    /\ [](\A self \in StakeAccts, config \in Configs :
            (Calling /\ state[self].tag = "Stake")
              => delegate_stake(self, TRUE, "V", 0, config).err
                   = "InvalidAccountData")


\* ---------------------------------------------------------------- C31
\* C31: a Stake account always holds at least as many lamports as its
\* stake counts as effective at the current epoch.
C31_EffectiveStakeIsBacked ==
    \A self \in StakeAccts :
      state[self].tag = "Stake"
        => lamports[self] >= Stake_stake(StakeAt(self), clock, stake_history)


\* ---------------------------------------------------------------- C32
\* the first epoch from the activation epoch on at which the warmup loop
\* stops: its entry is missing or has no activating stake
warmup_stops(self, history) ==
    CHOOSE k \in self.activation_epoch..(MaxEpoch + 1) :
      /\ k \notin DOMAIN history \/ history[k].activating = 0
      /\ \A e \in self.activation_epoch..(k - 1) :
           e \in DOMAIN history /\ history[e].activating # 0

\* the same for the cooldown loop, from the deactivation epoch on
cooldown_stops(self, history) ==
    CHOOSE k \in self.deactivation_epoch..(MaxEpoch + 1) :
      /\ k \notin DOMAIN history \/ history[k].deactivating = 0
      /\ \A e \in self.deactivation_epoch..(k - 1) :
           e \in DOMAIN history /\ history[e].deactivating # 0

\* the warmup half: the loop entered (the activation epoch has an entry),
\* the stake not deactivated by the epoch asked about
C32_WarmupStops ==
    LET self == StakeAt("stake")
    IN (/\ Evaluated
        /\ ~is_bootstrap(self)
        /\ self.activation_epoch \in DOMAIN stake_history
        /\ clock < self.deactivation_epoch)
         => /\ clock >= warmup_stops(self, stake_history)
                 => result.triple = stake_activating_and_deactivating(
                        self, warmup_stops(self, stake_history), stake_history)
            /\ (clock >= self.activation_epoch
                /\ stake_history[self.activation_epoch].activating = 0)
                 => result.triple = <<0, self.stake, 0>>
            /\ (clock > self.activation_epoch
                /\ DOMAIN stake_history = {self.activation_epoch}
                /\ stake_history[self.activation_epoch].activating # 0)
                 => LET entry == stake_history[self.activation_epoch]
                        increment == Min(self.stake,
                            entitlement(self.stake, entry.activating,
                                entry.effective, self.config.warmup_rate))
                    IN result.triple = <<increment, self.stake - increment, 0>>

\* the cooldown half: the loop entered (the deactivation epoch has an
\* entry), the epoch asked about after the deactivation epoch
C32_CooldownStops ==
    LET self == StakeAt("stake")
        at_deactivation == Stake_stake(self, self.deactivation_epoch, stake_history)
    IN (/\ Evaluated
        /\ ~is_bootstrap(self)
        /\ self.activation_epoch <= self.deactivation_epoch
        /\ self.deactivation_epoch \in DOMAIN stake_history
        /\ clock > self.deactivation_epoch)
         => /\ clock >= cooldown_stops(self, stake_history)
                 => result.triple[1] = Stake_stake(self,
                        cooldown_stops(self, stake_history), stake_history)
            /\ (/\ DOMAIN stake_history = {self.deactivation_epoch}
                /\ stake_history[self.deactivation_epoch].deactivating # 0)
                 => LET entry == stake_history[self.deactivation_epoch]
                        decrement == Min(at_deactivation,
                            entitlement(at_deactivation, entry.deactivating,
                                entry.effective, self.config.cooldown_rate))
                    IN result.triple[1] = at_deactivation - decrement


\* C32: the warmup and the cooldown loop stop at the first epoch whose
\* entry is missing or has no activating (deactivating) stake, and from
\* that epoch on the stake keeps the amount it had reached: an entry at the
\* activation epoch with activating 0 leaves (0, stake, 0), and an entry at
\* the activation (deactivation) epoch alone gives one increment
\* (decrement) however late the epoch asked about.
C32_LoopsStopAndKeepAmount == C32_WarmupStops /\ C32_CooldownStops


\* ---------------------------------------------------------------- C33
\* C33: under a history the builder made for every epoch, a deactivated
\* stake's effective amount never rises from one epoch to the next from
\* its deactivation epoch on, also when it was deactivated before it had
\* finished warming up.
C33_CooldownNeverRises ==
    \A i \in ScheduledIds :
      \A epoch \in state[i].stake.deactivation_epoch..(clock - 1) :
        effective_at(i, epoch + 1) <= effective_at(i, epoch)

\* the same for the stakes that have finished warming up when they are
\* deactivated
C33_CooldownOfWarmStakeNeverRises ==
    \A i \in ScheduledIds :
      effective_at(i, state[i].stake.deactivation_epoch) = state[i].stake.stake
        => \A epoch \in state[i].stake.deactivation_epoch..(clock - 1) :
             effective_at(i, epoch + 1) <= effective_at(i, epoch)


\* ---------------------------------------------------------------- C34
\* C34: once a deactivate has set a stake's deactivation_epoch no later
\* operation changes it, so a second deactivate neither restarts the
\* cooldown nor raises the stake's effective amount again.
C34_DeactivationEpochIsFinal ==
    [][\A a \in StakeAccts :
          (state[a].tag = "Stake" /\ StakeAt(a).deactivation_epoch # U64_MAX)
            => /\ state'[a].tag = "Stake"
               /\ state'[a].stake.deactivation_epoch
                    = StakeAt(a).deactivation_epoch
               /\ Stake_stake(state'[a].stake, clock, stake_history)
                    <= Stake_stake(StakeAt(a), clock, stake_history)]_vars

\* what the code keeps instead: a set deactivation_epoch never moves back
\* and is only ever replaced by the epoch of a later deactivate
C34_DeactivationEpochOnlyMovesToClock ==
    [][\A a \in StakeAccts :
          (state[a].tag = "Stake" /\ StakeAt(a).deactivation_epoch # U64_MAX)
            => \/ state'[a].stake.deactivation_epoch
                    = StakeAt(a).deactivation_epoch
               \/ /\ result'.op = "deactivate"
                  /\ state'[a].stake.deactivation_epoch = clock
                  /\ clock >= StakeAt(a).deactivation_epoch]_vars


\* ---------------------------------------------------------------- C35
\* the epochs of the voter that are closed, with their credits
recorded == VoteState_epoch_credits(vote_state)

\* C35: no credit of the voter is paid twice to the same stake.  A redeem
\* that has just succeeded cannot be repeated against the same voter state:
\* the second one fails with CustomError(1) and moves nothing.  Over any
\* run, a successful redeem counts of every recorded epoch at most that
\* epoch's credits and leaves none of them to be counted again, the
\* watermark never goes back and a recorded epoch never changes.
C35_NoCreditPaidTwice ==
    /\ [](result.op = "redeem" =>
            \A point_value \in PointValues :
              LET r == redeem_vote_credits(result.self, TRUE, "V", "pool",
                                           point_value)
              IN r.err = "CustomError(1)" /\ r.lamports = lamports
                                          /\ r.state = state)
    /\ [][\A self \in StakeAccts :
            (result = NoResult
             /\ result' = [op |-> "redeem", self |-> self, signed |-> result'.signed])
              => \A i \in DOMAIN recorded :
                   /\ counted(StakeAt(self), recorded[i])
                        <= recorded[i][2] - recorded[i][3]
                   /\ counted(state'[self].stake, recorded[i]) = 0]_vars
    /\ [][\A self \in StakeAccts :
            state[self].tag = "Stake"
              => /\ state'[self].tag = "Stake"
                 /\ state'[self].stake.credits_observed
                      >= StakeAt(self).credits_observed]_vars
    /\ [][SubSeq(VoteState_epoch_credits(vote_state)', 1, Len(recorded))
            = recorded]_vars

\* a redeem has just paid for an epoch of which the stake had already
\* observed a part, after an earlier epoch was paid, and the voter has
\* earned more since
C35_Witness ==
    /\ result.op = "redeem"
    /\ Len(recorded) >= 2
    /\ recorded[Len(recorded)][2] > recorded[Len(recorded)][3]
    /\ recorded[1][2] > recorded[1][3]
    /\ StakeAt(result.self).credits_observed = recorded[Len(recorded)][2]
    /\ VoteState_credits(vote_state) > StakeAt(result.self).credits_observed
    /\ lamports["pool"] < RedeemPool


\* ---------------------------------------------------------------- C36
\* C36: a loader Write succeeds only when account 0 has signed and offset +
\* length of the bytes is within the length of the account's data.  On
\* success the bytes at [offset, offset + length) are the bytes written
\* and nothing else has changed; otherwise the instruction returns
\* GenericError and the data is as before.
C36_WriteWithinBounds ==
    Calling =>
      \A signed \in BOOLEAN, outcome \in VmOutcomes :
        \A offset \in 0..(MaxData + 1), bytes \in BytesUpTo(MaxData + 1) :
          LET r == process_instruction(signed, Write(offset, bytes), outcome)
              old == keyed_accounts[0].data
              new == r.state[0].data
              end == offset + Len(bytes)
          IN IF signed /\ end <= Len(old)
             THEN /\ r.err = "Ok"
                  /\ Len(new) = Len(old)
                  /\ SubSeq(new, offset + 1, end) = bytes
                  /\ SubSeq(new, 1, offset) = SubSeq(old, 1, offset)
                  /\ SubSeq(new, end + 1, Len(old)) = SubSeq(old, end + 1, Len(old))
                  /\ r.state = [state EXCEPT ![0].data = new]
                  /\ r.lamports = lamports
             ELSE r = Returned("GenericError", lamports, state)

\* a Write has replaced the last byte of the program and left the first
\* one; a Write one byte longer, or one byte further, is refused
C36_Witness ==
    /\ result.op = "Write"
    /\ result.instruction.offset > 0
    /\ Len(result.instruction.bytes) > 0
    /\ result.instruction.offset + Len(result.instruction.bytes)
         = Len(keyed_accounts[0].data)
    /\ keyed_accounts[0].data[1] # keyed_accounts[0].data[Len(keyed_accounts[0].data)]
    /\ process_instruction(TRUE, Write(result.instruction.offset + 1,
                                       result.instruction.bytes),
                           [vm |-> "run_failed"]).err = "GenericError"


\* ---------------------------------------------------------------- C37
\* C37: InvokeMain returns GenericError unless account 0 is executable; the
\* executable flag is set only by a Finalize that account 0 signed, and no
\* loader instruction clears it; so a program has run only after a signed
\* Finalize.
C37_RunsOnlyAfterSignedFinalize ==
    /\ [](Calling =>
            \A signed \in BOOLEAN, outcome \in VmOutcomes :
              /\ ~keyed_accounts[0].executable
                   => \A data \in BytesUpTo(1) :
                        process_instruction(signed, InvokeMain(data), outcome)
                          = Returned("GenericError", lamports, state)
              /\ process_instruction(FALSE, Finalize, outcome)
                   = Returned("GenericError", lamports, state))
    /\ [][(~keyed_accounts[0].executable /\ keyed_accounts[0].executable')
            => (result'.op = "Finalize" /\ result'.signed)]_vars
    /\ [][keyed_accounts[0].executable => keyed_accounts[0].executable']_vars
    /\ [](result.op = "InvokeMain" => keyed_accounts[0].executable)

\* the program has just run and has changed its parameter account
C37_Witness ==
    /\ result.op = "InvokeMain"
    /\ keyed_accounts[0].executable
    /\ keyed_accounts[1].lamports > 0


\* ---------------------------------------------------------------- C38
\* C38: once a Finalize has made the program account executable, no later
\* Write changes its data.
C38_ExecutableDataIsFrozen ==
    [][keyed_accounts[0].executable
         => keyed_accounts[0].data' = keyed_accounts[0].data]_vars

\* what the code does instead: Write treats an executable account like any
\* other
C38_WriteIgnoresExecutable ==
    Calling =>
      \A signed \in BOOLEAN, outcome \in VmOutcomes :
        \A offset \in 0..(MaxData + 1), bytes \in BytesUpTo(MaxData + 1) :
          process_instruction(signed, Write(offset, bytes), outcome).err = "Ok"
            <=> (signed /\ offset + Len(bytes) <= Len(keyed_accounts[0].data))


\* ---------------------------------------------------------------- C39
\* the keypair that produced the value's current signature has the value's
\* own pubkey
signed_by_own_keypair(value) ==
    \E keypair \in Keypairs :
      /\ get_signature(value).secret = keypair.secret
      /\ keypair.pubkey = CrdsValue_pubkey(value)

\* C39: a CrdsValue of any variant verifies exactly when its current
\* signature was produced by the keypair of its own pubkey: a newly built
\* value does not verify, a value signed with the keypair of its pubkey does,
\* one signed with another keypair does not, and serializing and
\* deserializing a value changes neither its signature nor whether it
\* verifies.
C39_VerifiesIffSignedByOwnKeypair ==
    /\ [](verify(state) <=> signed_by_own_keypair(state))
    /\ [](result.op = "new" => ~verify(state))
    /\ [](result.op = "sign"
            => (verify(state) <=> result.keypair.pubkey = CrdsValue_pubkey(state)))
    /\ [][result'.op = "deserialize"
            => /\ get_signature(state') = get_signature(state)
               /\ verify(state') = verify(state)]_vars

\* a signed value of the variant with a set in it has come back from the bytes
C39_Witness ==
    /\ result.op = "deserialize"
    /\ state.tag = "EpochSlots"
    /\ state.slots = {1, 2}
    /\ verify(state)

====
